---- MODULE Spec2Model ----
(***************************************************************************)
(* A model of fqn-renamer (dymk/fqn-renamer):                              *)
(*   - matched_file.rs : Line (text + byte-range submatches), its span     *)
(*     iterator, replace and adjust_submatches            (SpecLine)       *)
(*   - rg_worker.rs    : the reader thread that splits the subprocess      *)
(*     output into records and publishes MatchedFiles     (SpecReader)     *)
(*   - fqcn_processor.rs : process_matched_file_fqcn      (SpecFqcn)       *)
(* Text is a sequence of one-byte strings (ASCII, except where a two-byte  *)
(* UTF-8 character is written as the pair "L","T").  A byte range is a     *)
(* record [start, end], half open, as Rust's Range<usize>.                 *)
(***************************************************************************)
EXTENDS Integers, Sequences, FiniteSets, TLC

VARIABLES
    \* ---- matched_file.rs: one Line under a sequence of operations
    lstate,     \* "start" | "line" | "panic"
    line,       \* the Line that exists now (NoLine when none)
    orig,       \* the Line the last operation was applied to
    op,         \* "none" | "new" | "replace" | "adjust"
    farg,       \* the closure handed to the last replace / adjust_submatches
    checked,    \* the submatch list the last operation handed to check_invariants
    \* ---- rg_worker.rs: the reader thread of one RgWorker, and its poller
    sent,       \* the files the subprocess reports (fixed at spawn)
    input,      \* the bytes the subprocess writes for them (fixed at spawn)
    stream,     \* the bytes of child_stdout not read yet
    rpc,        \* "off" | "read" | "split" | "push" | "done" | "panicked"
    str_buf,    \* the reader's str_buf
    finished,   \* the reader's finished flag
    builder,    \* in_progress_found: MatchedFileBuilder
    found,      \* the file built by an `end` and not pushed yet (at most one)
    results,    \* RgWorker::results, the shared Vec<MatchedFile>
    results_lock, \* holder of the results mutex: "free" | "poller"
    handled,    \* the records handle_command has returned from, in order
    search_state, \* App::search_state: "SearchingIdent" | "SearchingFqcn"
    taken,      \* the files check_search_done has taken out of results, in order
    \* ---- fqcn_processor.rs: one call of process_matched_file_fqcn
    fqcn,       \* the Fqcn searched for
    files_in,   \* the argument matched_files
    files_out,  \* the Vec<MatchedFile> returned
    kept,       \* per file of files_in: what the retain_mut closure returned
    fpc,        \* "off" | "ready" | "done"
    \* ---- fqcn.rs: one call of Fqcn::new
    new_arg,    \* the argument `value` of Fqcn::new
    parsed,     \* what Fqcn::new returned
    ppc,        \* "off" | "ready" | "done"
    \* ---- app.rs / rg_worker.rs: the App, its workers and their lifecycle
    app_state,  \* App::search_state: "Idle" | "SearchingFqcn" | "SearchingIdent"
    workers,    \* App::workers: the RgWorkers held, as indices into spawned
    spawned,    \* every RgWorker spawned so far: subprocess, reader thread, pipe
    apc,        \* the UI thread: "off" | "loop" | "kill" | "join"
    killing,    \* the local `workers` of kill_workers still to go through
    caller,     \* the handler kill_workers runs for: "none" | "poll" | "stop"
    errors,     \* the error events logged, in order
    sigchld_ignored, \* the process was started with SIGCHLD ignored
    observed,   \* the finished() calls of the last check_search_done
    \* ---- app.rs: replace_input_submitted and the files it rewrites
    disk,       \* the files: path -> [exists, bytes]
    disk_before, \* the files as they were before the last replace
    replacments, \* App::replacments
    rw_search_state, \* App::search_state when replace is submitted
    rw_errors,  \* the error events logged by replace_input_submitted
    outcomes,   \* how each execute_replacements so far ended, in order
    line_breaks,\* the characters the Rope of this build breaks lines at
    \* ---- app.rs: update_replacements after an FQCN search
    found_matches, \* App::found_matches
    search_for_ident, \* the value of the input searched for
    replace_with_ident, \* the value of the input to replace with
    new_replacments, \* App::replacments as update_replacements builds it
    upc,        \* "ready", "done", or "panicked" in update_replacements
    \* ---- rg_worker.rs: one record handled by the reader
    record,     \* the record the subprocess writes
    builder_before, \* the MatchedFileBuilder when the record arrives
    builder_after, \* the MatchedFileBuilder when the record has been handled
    hpc,        \* "ready", "done", or "panicked" on the record
    \* ---- app.rs: one poll after another of a search that runs to its end
    child,      \* the subprocess: "running" | "exited"
    cpc,        \* check_search_done: "drain" | "finished", or "idle" with the worker dropped
    dropped,    \* what the result list held when the worker was dropped
    \* ---- event_log.rs: the event log and the threads that push to it
    log_state,  \* EventLog::state: [last, events]
    log_lock,   \* the mutex of the event log: "free" or the thread that holds it
    list_lock,  \* the mutex of the result list: "free" or the thread that holds it
    lpc,        \* where the poller and the reader are
    log_pushes, \* every push so far, oldest first
    files_left, \* the files the subprocess has still to report
    log_search, \* App::search_state of the search polled
    show_events,\* App::show_events
    \* ---- app.rs: found_matches and replacments across searches and edits
    sync_state,  \* App::search_state: "Idle" | "SearchingFqcn" | "SearchingIdent" ("off")
    to_report,   \* the files the worker of the running search has yet to report
    rewritten,   \* the paths the last execute_replacements rewrote
    started      \* the searches started so far

lineVars == <<lstate, line, orig, op, farg, checked>>

readerVars == <<sent, input, stream, rpc, str_buf, finished, builder, found, results,
                results_lock, handled, search_state, taken>>

fqcnVars == <<fqcn, files_in, files_out, kept, fpc>>

parseVars == <<new_arg, parsed, ppc>>

workerVars == <<app_state, workers, spawned, apc, killing, caller, errors, sigchld_ignored, observed>>

rewriteVars == <<disk, disk_before, replacments, rw_search_state, rw_errors, outcomes, line_breaks>>

updateVars == <<found_matches, search_for_ident, replace_with_ident, new_replacments, upc>>

recordVars == <<record, builder_before, builder_after, hpc>>

pollVars == <<child, cpc, dropped>>

logVars == <<log_state, log_lock, list_lock, lpc, log_pushes, files_left, log_search, show_events>>

syncVars == <<sync_state, to_report, rewritten, started>>

vars == <<lineVars, readerVars, fqcnVars, parseVars, workerVars, rewriteVars, updateVars, recordVars, pollVars, logVars, syncVars>>

\* no search session: the values of its variables outside SpecSync
SyncOff ==
    /\ sync_state = "off"
    /\ to_report = <<>>
    /\ rewritten = <<>>
    /\ started = 0

\* no event log: the values of its variables outside SpecLog
LogOff ==
    /\ log_state = <<>>
    /\ log_lock = "off"
    /\ list_lock = "off"
    /\ lpc = <<>>
    /\ log_pushes = <<>>
    /\ files_left = 0
    /\ log_search = "off"
    /\ show_events = FALSE

\* no polled search: the values of its variables outside SpecPoll
PollOff ==
    /\ child = "off"
    /\ cpc = "off"
    /\ dropped = <<>>

\* no single record: the values of its variables outside SpecRecord
RecordOff ==
    /\ record = <<>>
    /\ builder_before = <<>>
    /\ builder_after = <<>>
    /\ hpc = "off"

\* no update of the replacements: the values of its variables outside
\* SpecUpdate
UpdateOff ==
    /\ found_matches = <<>>
    /\ search_for_ident = <<>>
    /\ replace_with_ident = <<>>
    /\ new_replacments = <<>>
    /\ upc = "off"

\* no replace: the values of its variables outside SpecRewrite
RewriteOff ==
    /\ disk = <<>>
    /\ disk_before = <<>>
    /\ replacments = <<>>
    /\ rw_search_state = "Idle"
    /\ rw_errors = <<>>
    /\ outcomes = <<>>
    /\ line_breaks = {}

\* no App: the values of its variables outside SpecWorker
WorkerOff ==
    /\ app_state = "Idle"
    /\ workers = <<>>
    /\ spawned = <<>>
    /\ apc = "off"
    /\ killing = <<>>
    /\ caller = "none"
    /\ errors = <<>>
    /\ sigchld_ignored = FALSE
    /\ observed = <<>>

\* no Fqcn::new: the values of its variables outside SpecParse
ParseOff ==
    /\ new_arg = <<>>
    /\ parsed = [some |-> FALSE]
    /\ ppc = "off"

\* ------------------------------------------------------------------ bounds
MaxLen == 3        \* longest generic line text handed to Line::new
MaxSubs == 2       \* longest generic submatch list handed to Line::new
MaxFiles == 2      \* most files one subprocess reports
MaxFileLines == 2  \* most lines of a file handed to process_matched_file_fqcn

\* ------------------------------------------------------- program constants
BufSize == 4096    \* vec![0u8; 4096], the most bytes one read returns

\* ------------------------------------------------------------ byte strings
Alphabet == {"a", "b"}

Digits10 == <<"0", "1", "2", "3", "4", "5", "6", "7", "8", "9">>
FooBarBaz == <<"f", "o", "o", " ", "b", "a", "r", " ", "b", "a", "z">>
Dot == <<".">>

RECURSIVE SeqsUpTo(_, _)
\* all sequences over S of length at most n
SeqsUpTo(S, n) ==
    IF n = 0 THEN {<<>>}
    ELSE LET shorter == SeqsUpTo(S, n - 1)
         IN  shorter \cup {Append(s, x) : s \in {t \in shorter : Len(t) = n - 1}, x \in S}

RECURSIVE Concat(_)
\* concatenation of a sequence of sequences
Concat(ss) == IF ss = <<>> THEN <<>> ELSE Head(ss) \o Concat(Tail(ss))

RECURSIVE SumSeq(_)
SumSeq(ns) == IF ns = <<>> THEN 0 ELSE Head(ns) + SumSeq(Tail(ns))

\* --------------------------------------------------------- Range<usize>
Rng(s, e) == [start |-> s, end |-> e]

\* Range::is_empty: !(start < end)
RangeIsEmpty(r) == ~(r.start < r.end)

\* ExactSizeIterator::len of a Range<usize>: 0 when start >= end
RangeLen(r) == IF r.start < r.end THEN r.end - r.start ELSE 0

\* &value[a..b] panics unless a <= b <= value.len()
SliceOk(value, a, b) == a <= b /\ b <= Len(value)

Slice(value, a, b) == SubSeq(value, a + 1, b)

\* ------------------------------------------------------- matched_file.rs
NoLine == [num |-> 0, value |-> <<>>, submatches |-> <<>>]

Panic == [ok |-> FALSE]

\* mutant: the emptiness loop of check_invariants is missing
check_invariants_no_empty(submatches) ==
    \A i \in 1..(Len(submatches) - 1) :
        ~(submatches[i].end > submatches[i + 1].start)

\* Line::check_invariants: TRUE when it returns, FALSE when it panics
check_invariants(submatches) ==
    /\ \A i \in 1..Len(submatches) : ~RangeIsEmpty(submatches[i])
    /\ \A i \in 1..(Len(submatches) - 1) :
           ~(submatches[i].end > submatches[i + 1].start)

\* Line::new
Line_new(num, value, submatches) ==
    IF check_invariants(submatches)
    THEN [ok |-> TRUE,
          line |-> [num |-> num, value |-> value, submatches |-> submatches]]
    ELSE Panic

Span(is_match, text) == [is_match |-> is_match, text |-> text]

\* what one call of next() leaves behind: the item (Option as a sequence of
\* at most one span) and the iterator's pos and submatches
Stepped(item, pos, submatches) ==
    [ok |-> TRUE, item |-> item, pos |-> pos, submatches |-> submatches]

\* mutant: the remainder after the last submatch is never yielded
LinePartsIter_next_no_tail(value, pos, submatches) ==
    IF submatches # <<>>
    THEN LET submatch == Head(submatches) IN
         IF submatch.start = pos
         THEN IF ~SliceOk(value, submatch.start, submatch.end) THEN Panic
              ELSE Stepped(<<Span(TRUE, Slice(value, submatch.start, submatch.end))>>,
                           submatch.end, Tail(submatches))
         ELSE IF ~SliceOk(value, pos, submatch.start) THEN Panic
              ELSE Stepped(<<Span(FALSE, Slice(value, pos, submatch.start))>>,
                           submatch.start, submatches)
    ELSE Stepped(<<>>, pos, submatches)

\* LinePartsIter::next: a panic when a slice is out of bounds
LinePartsIter_next(value, pos, submatches) ==
    IF submatches # <<>>
    THEN LET submatch == Head(submatches) IN
         IF submatch.start = pos
         THEN IF ~SliceOk(value, submatch.start, submatch.end) THEN Panic
              ELSE Stepped(<<Span(TRUE, Slice(value, submatch.start, submatch.end))>>,
                           submatch.end, Tail(submatches))
         ELSE IF ~SliceOk(value, pos, submatch.start) THEN Panic
              ELSE Stepped(<<Span(FALSE, Slice(value, pos, submatch.start))>>,
                           submatch.start, submatches)
    ELSE IF pos = Len(value) THEN Stepped(<<>>, pos, submatches)
         ELSE IF ~SliceOk(value, pos, Len(value)) THEN Panic
              ELSE Stepped(<<Span(FALSE, Slice(value, pos, Len(value)))>>,
                           Len(value), submatches)

RECURSIVE LinePartsIter(_, _, _)
\* the iterator run until next() returns None: the spans it yields
LinePartsIter(value, pos, submatches) ==
    LET n == LinePartsIter_next(value, pos, submatches) IN
    IF ~n.ok THEN Panic
    ELSE IF n.item = <<>> THEN [ok |-> TRUE, spans |-> <<>>]
    ELSE LET rest == LinePartsIter(value, n.pos, n.submatches) IN
         IF ~rest.ok THEN Panic
         ELSE [ok |-> TRUE, spans |-> n.item \o rest.spans]

\* Line::iter, collected
iter(l) == LinePartsIter(l.value, 0, l.submatches)

Built(new_value, new_submatches, pos) ==
    [new_value |-> new_value, new_submatches |-> new_submatches, pos |-> pos]

\* mutant: an empty replacement leaves the matched text in place
replace_step_keeps_match(acc, span, replacer) ==
    IF span.is_match
    THEN LET replaced == replacer[span.text] IN
         IF replaced = <<>>
         THEN Built(acc.new_value \o span.text, acc.new_submatches,
                    acc.pos + Len(span.text))
         ELSE Built(acc.new_value \o replaced,
                    Append(acc.new_submatches, Rng(acc.pos, acc.pos + Len(replaced))),
                    acc.pos + Len(replaced))
    ELSE Built(acc.new_value \o span.text, acc.new_submatches, acc.pos + Len(span.text))

\* mutant: an empty replacement is pushed as a zero-length submatch
replace_step_pushes_empty(acc, span, replacer) ==
    IF span.is_match
    THEN LET replaced == replacer[span.text] IN
         Built(acc.new_value \o replaced,
               Append(acc.new_submatches, Rng(acc.pos, acc.pos + Len(replaced))),
               acc.pos + Len(replaced))
    ELSE Built(acc.new_value \o span.text, acc.new_submatches, acc.pos + Len(span.text))

\* mutant: the new submatch is placed by patching the old range, pos is the
\* old position and not the accumulated one
replace_step_old_offsets(acc, span, replacer) ==
    IF span.is_match
    THEN LET replaced == replacer[span.text] IN
         IF replaced = <<>>
         THEN Built(acc.new_value, acc.new_submatches, acc.pos + Len(span.text))
         ELSE Built(acc.new_value \o replaced,
                    Append(acc.new_submatches, Rng(acc.pos, acc.pos + Len(replaced))),
                    acc.pos + Len(span.text))
    ELSE Built(acc.new_value \o span.text, acc.new_submatches, acc.pos + Len(span.text))

\* one pass of the for loop of Line::replace
replace_step(acc, span, replacer) ==
    IF span.is_match
    THEN LET replaced == replacer[span.text] IN
         IF replaced = <<>>
         THEN acc
         ELSE Built(acc.new_value \o replaced,
                    Append(acc.new_submatches, Rng(acc.pos, acc.pos + Len(replaced))),
                    acc.pos + Len(replaced))
    ELSE Built(acc.new_value \o span.text, acc.new_submatches, acc.pos + Len(span.text))

RECURSIVE replace_loop(_, _, _)
\* the for loop of Line::replace over the spans of iter()
replace_loop(spans, replacer, acc) ==
    IF spans = <<>> THEN acc
    ELSE replace_loop(Tail(spans), replacer, replace_step(acc, Head(spans), replacer))

\* Line::replace up to its call of Line::new: the arguments of that call
replace_built(l, replacer) ==
    LET it == iter(l) IN
    IF ~it.ok THEN Panic
    ELSE LET r == replace_loop(it.spans, replacer, Built(<<>>, <<>>, 0))
         IN  [ok |-> TRUE, new_value |-> r.new_value, new_submatches |-> r.new_submatches]

\* Line::replace
replace(l, replacer) ==
    LET b == replace_built(l, replacer) IN
    IF ~b.ok THEN Panic ELSE Line_new(l.num, b.new_value, b.new_submatches)

\* mutant: the adjuster's range is taken as start..end of the new submatch,
\* the end not re-anchored at the moved start
adjust_one_end_unmoved(submatch, new_range) ==
    Rng(submatch.start + new_range.start, submatch.start + new_range.end - new_range.start)

\* mutant: the submatch is moved and keeps its length
adjust_one_keeps_len(submatch, new_range) ==
    LET start == submatch.start + new_range.start
    IN  Rng(start, start + RangeLen(submatch))

\* the body of the retain_mut closure of adjust_submatches: the submatch moved
adjust_one(submatch, new_range) ==
    LET start == submatch.start + new_range.start
    IN  Rng(start, start + RangeLen(new_range))

RECURSIVE adjust_retain(_, _, _)
\* retain_mut over the submatches in order
adjust_retain(value, submatches, adjuster) ==
    IF submatches = <<>> THEN [ok |-> TRUE, submatches |-> <<>>]
    ELSE LET submatch == Head(submatches) IN
         IF ~SliceOk(value, submatch.start, submatch.end) THEN Panic
         ELSE LET sm_value == Slice(value, submatch.start, submatch.end)
                  adjusted == adjust_one(submatch, adjuster[sm_value])
                  rest == adjust_retain(value, Tail(submatches), adjuster)
              IN  IF ~rest.ok THEN Panic
                  ELSE [ok |-> TRUE,
                        submatches |-> IF RangeIsEmpty(adjusted) THEN rest.submatches
                                       ELSE <<adjusted>> \o rest.submatches]

\* Line::adjust_submatches
adjust_submatches(l, adjuster) ==
    LET r == adjust_retain(l.value, l.submatches, adjuster) IN
    IF ~r.ok THEN Panic
    ELSE IF check_invariants(r.submatches)
         THEN [ok |-> TRUE, line |-> [l EXCEPT !.submatches = r.submatches]]
         ELSE Panic

\* ----------------------------------------------------- inputs of SpecLine
\* the texts of the submatches of l that are slices of its text
SubTexts(l) ==
    {Slice(l.value, l.submatches[i].start, l.submatches[i].end) :
        i \in {j \in 1..Len(l.submatches) :
                 SliceOk(l.value, l.submatches[j].start, l.submatches[j].end)}}

Texts == SeqsUpTo(Alphabet, MaxLen)

RangesFor(value) == {Rng(s, e) : s \in 0..(Len(value) + 1), e \in 0..(Len(value) + 1)}

LineNums == {7}

\* what a replacer may return for a matched text
Repls(l) == {<<>>, <<"a">>, <<"b", "a">>} \cup (IF l.value = Digits10 THEN {Dot} ELSE {})

\* the lines the model goes on operating on: the short ones and the tests' ones
Operable(l) == Len(l.value) <= MaxLen \/ l.value \in {Digits10, FooBarBaz}

\* what an adjuster may return: relative ranges, 2..1 being an empty one
AdjRanges == {Rng(0, 0), Rng(0, 1), Rng(1, 2), Rng(0, 2), Rng(2, 1), Rng(1, 3)}

\* the lines of the unit tests of matched_file.rs
TestLines ==
    {[value |-> Digits10, submatches |-> <<Rng(2, 6)>>],
     [value |-> Digits10, submatches |-> <<Rng(3, 6), Rng(8, 10)>>],
     [value |-> FooBarBaz, submatches |-> <<Rng(0, 4), Rng(4, 11)>>]}

\* the adjusters of test_adjust_submatches and test_drop_empty_submatches
TestAdjusters ==
    {[t \in {Slice(FooBarBaz, 0, 4), Slice(FooBarBaz, 4, 11)} |->
         IF t = Slice(FooBarBaz, 0, 4) THEN Rng(0, 3) ELSE Rng(4, 7)],
     [t \in {Slice(FooBarBaz, 0, 4), Slice(FooBarBaz, 4, 11)} |->
         IF t = Slice(FooBarBaz, 0, 4) THEN Rng(0, 3) ELSE Rng(0, 0)]}

\* no classification: the values of its variables outside SpecFqcn
FqcnOff ==
    /\ fqcn = [value |-> <<>>, package_range |-> Rng(0, 0), ident_range |-> Rng(0, 0)]
    /\ files_in = <<>>
    /\ files_out = <<>>
    /\ kept = <<>>
    /\ fpc = "off"

\* no worker: the values of the reader's variables outside SpecReader
ReaderOff ==
    /\ sent = <<>>
    /\ input = <<>>
    /\ stream = <<>>
    /\ rpc = "off"
    /\ str_buf = <<>>
    /\ finished = FALSE
    /\ builder = [file_path |-> <<>>, lines |-> <<>>]
    /\ found = <<>>
    /\ results = <<>>
    /\ results_lock = "free"
    /\ handled = <<>>
    /\ search_state = "Idle"
    /\ taken = <<>>

\* ------------------------------------------------------ actions, SpecLine
\* no Line constructed yet
LineOff ==
    /\ lstate = "start"
    /\ line = NoLine
    /\ orig = NoLine
    /\ op = "none"
    /\ farg = <<>>
    /\ checked = <<>>

InitLine == SyncOff /\ LogOff /\ PollOff /\ RecordOff /\ UpdateOff /\ RewriteOff /\ WorkerOff /\ ParseOff /\ LineOff /\ ReaderOff /\ FqcnOff

SetLine(res, o, name, f, chk) ==
    /\ lstate' = IF res.ok THEN "line" ELSE "panic"
    /\ line' = IF res.ok THEN res.line ELSE NoLine
    /\ orig' = o
    /\ op' = name
    /\ farg' = f
    /\ checked' = chk
    /\ UNCHANGED <<readerVars, fqcnVars, parseVars, workerVars, rewriteVars, updateVars, recordVars, pollVars, logVars, syncVars>>

\* Line::new(num, value, submatches)
LNew ==
    /\ lstate = "start"
    /\ \E num \in LineNums :
          \/ \E value \in Texts :
                \E submatches \in SeqsUpTo(RangesFor(value), MaxSubs) :
                    SetLine(Line_new(num, value, submatches), NoLine, "new", <<>>,
                            submatches)
          \/ \E t \in TestLines :
                SetLine(Line_new(num, t.value, t.submatches), NoLine, "new", <<>>,
                        t.submatches)

\* line.replace(replacer)
LReplace ==
    /\ lstate = "line"
    /\ Operable(line)
    /\ \E replacer \in [SubTexts(line) -> Repls(line)] :
          LET b == replace_built(line, replacer) IN
          SetLine(replace(line, replacer), line, "replace", replacer,
                  IF b.ok THEN b.new_submatches ELSE <<>>)

\* line.adjust_submatches(adjuster)
LAdjust ==
    /\ lstate = "line"
    /\ Operable(line)
    /\ \E adjuster \in [SubTexts(line) -> AdjRanges] \cup
                       {f \in TestAdjusters : DOMAIN f = SubTexts(line)} :
          LET r == adjust_retain(line.value, line.submatches, adjuster) IN
          SetLine(adjust_submatches(line, adjuster), line, "adjust", adjuster,
                  IF r.ok THEN r.submatches ELSE <<>>)

NextLine == LNew \/ LReplace \/ LAdjust

SpecLine == InitLine /\ [][NextLine]_vars

\* ------------------------------------------------------- claims, SpecLine
\* the submatch invariant of the specification: non-empty, sorted by start,
\* pairwise non-overlapping
SubmatchInvariant(submatches) ==
    /\ \A i \in 1..Len(submatches) : submatches[i].start < submatches[i].end
    /\ \A i \in 1..(Len(submatches) - 1) :
           /\ submatches[i].start <= submatches[i + 1].start
           /\ submatches[i].end <= submatches[i + 1].start

\* every submatch lies within the text
Within(l) == \A i \in 1..Len(l.submatches) : l.submatches[i].end <= Len(l.value)

SubText(l, i) == Slice(l.value, l.submatches[i].start, l.submatches[i].end)

SubTextSeq(l) == [i \in 1..Len(l.submatches) |-> SubText(l, i)]

\* the unmatched text before submatch i (i = Len + 1: after the last one)
Gap(l, i) ==
    Slice(l.value,
          IF i = 1 THEN 0 ELSE l.submatches[i - 1].end,
          IF i = Len(l.submatches) + 1 THEN Len(l.value) ELSE l.submatches[i].start)

IsMatch(span) == span.is_match

TextsOf(spans) == [i \in 1..Len(spans) |-> spans[i].text]

\* C3: for a line whose submatches satisfy the invariant and lie within the
\* text, iter() yields non-empty spans whose concatenation is the text, the
\* spans flagged as match are the submatch texts in order, and there are at
\* most 2k+1 spans for k submatches
C3_IterCoversText ==
    (lstate = "line" /\ SubmatchInvariant(line.submatches) /\ Within(line)) =>
        LET it == iter(line) IN
        /\ it.ok
        /\ \A i \in 1..Len(it.spans) : it.spans[i].text # <<>>
        /\ Concat(TextsOf(it.spans)) = line.value
        /\ TextsOf(SelectSeq(it.spans, IsMatch)) = SubTextSeq(line)
        /\ Len(it.spans) <= 2 * Len(line.submatches) + 1

\* the last case of test_line_iter: "0123456789" with 3..6 and 8..10
C3_Witness ==
    /\ lstate = "line"
    /\ line.value = Digits10
    /\ line.submatches = <<Rng(3, 6), Rng(8, 10)>>
    /\ iter(line).spans = <<Span(FALSE, <<"0", "1", "2">>), Span(TRUE, <<"3", "4", "5">>),
                            Span(FALSE, <<"6", "7">>), Span(TRUE, <<"8", "9">>)>>

\* the text replace is to build: every gap verbatim, f(matched text) for
\* every submatch, in order
ReplacedText(l, f) ==
    Concat([i \in 1..Len(l.submatches) |-> Gap(l, i) \o f[SubText(l, i)]])
        \o Gap(l, Len(l.submatches) + 1)

\* C4: replace(f) returns a line whose text is the unmatched spans verbatim
\* and f(matched text) for every submatch, in span order, with the line
\* number unchanged
C4_ReplaceText ==
    (op = "replace" /\ Within(orig)) =>
        /\ lstate = "line"
        /\ line.value = ReplacedText(orig, farg)
        /\ line.num = orig.num

\* test_replace_shortens: "0123456789", 2..6, "2345" -> "." gives "01.6789"
C4_Witness ==
    /\ op = "replace"
    /\ lstate = "line"
    /\ orig.value = Digits10
    /\ orig.submatches = <<Rng(2, 6)>>
    /\ farg[<<"2", "3", "4", "5">>] = Dot
    /\ line.value = <<"0", "1", ".", "6", "7", "8", "9">>
    /\ iter(line).spans = <<Span(FALSE, <<"0", "1">>), Span(TRUE, Dot),
                            Span(FALSE, <<"6", "7", "8", "9">>)>>

\* the submatches of l whose replacement under f is not empty
Kept(l, f) ==
    LET keep(i) == f[SubText(l, i)] # <<>>
    IN  SelectSeq([i \in 1..Len(l.submatches) |-> i], keep)

\* C5: the line returned by replace has non-empty, sorted, non-overlapping
\* submatches within the new text, one per submatch whose replacement is not
\* empty, and iterating it yields no empty span
C5_ReplaceKeepsInvariant ==
    (op = "replace" /\ Within(orig)) =>
        /\ lstate = "line"
        /\ SubmatchInvariant(line.submatches)
        /\ Within(line)
        /\ Len(line.submatches) = Len(Kept(orig, farg))
        /\ iter(line).ok
        /\ \A i \in 1..Len(iter(line).spans) : iter(line).spans[i].text # <<>>

\* test_replace_drops_empty, with a second submatch that is kept
C5_Witness ==
    /\ op = "replace"
    /\ lstate = "line"
    /\ Len(orig.submatches) = 2
    /\ farg[SubText(orig, 1)] = <<>>
    /\ Len(line.submatches) = 1

\* replacement length minus original length, summed over the submatches
\* before submatch i
Shift(l, f, i) ==
    SumSeq([m \in 1..(i - 1) |->
               Len(f[SubText(l, m)]) - (l.submatches[m].end - l.submatches[m].start)])

\* C6: each kept submatch of the replaced line starts at its original start
\* plus the accumulated length change of the earlier submatches, is as long
\* as its replacement and covers the replacement text
C6_ReplaceOffsets ==
    (op = "replace" /\ lstate = "line") =>
        LET kept_idx == Kept(orig, farg) IN
        /\ Len(line.submatches) = Len(kept_idx)
        /\ \A j \in 1..Len(kept_idx) :
              LET i == kept_idx[j]
                  replaced == farg[SubText(orig, i)]
              IN  /\ line.submatches[j].start
                        = orig.submatches[i].start + Shift(orig, farg, i)
                  /\ line.submatches[j].end - line.submatches[j].start = Len(replaced)
                  /\ SubText(line, j) = replaced

\* two kept_idx submatches, the first one lengthened, the second of another
\* length change
C6_Witness ==
    /\ op = "replace"
    /\ lstate = "line"
    /\ Len(orig.submatches) = 2
    /\ Len(line.submatches) = 2
    /\ Shift(orig, farg, 2) > 0
    /\ Shift(orig, farg, 3) # 2 * Shift(orig, farg, 2)
    /\ orig.submatches[1].start > 0

\* the submatches adjust_submatches is to leave: each one re-anchored at its
\* own start, the empty ones dropped
Adjusted(l, f) ==
    LET moved == [i \in 1..Len(l.submatches) |->
                     LET r == f[SubText(l, i)]
                         s == l.submatches[i].start + r.start
                     IN  Rng(s, s + (IF r.end > r.start THEN r.end - r.start ELSE 0))]
        nonEmpty(r) == r.start < r.end
    IN  SelectSeq(moved, nonEmpty)

\* C7: adjust_submatches(f) replaces each submatch [s,e) by
\* [s + r.start, s + r.start + len(r)), r = f(text[s..e]), and drops the
\* submatches that come out empty; text and line number stay
C7_AdjustReanchors ==
    (op = "adjust" /\ Within(orig)) =>
        /\ checked = Adjusted(orig, farg)
        /\ lstate = "line" =>
              /\ line.submatches = Adjusted(orig, farg)
              /\ line.value = orig.value
              /\ line.num = orig.num

\* test_adjust_submatches: "foo bar baz", 0..4 and 4..11
C7_Witness ==
    /\ op = "adjust"
    /\ lstate = "line"
    /\ orig.value = FooBarBaz
    /\ orig.submatches = <<Rng(0, 4), Rng(4, 11)>>
    /\ farg[<<"f", "o", "o", " ">>] = Rng(0, 3)
    /\ farg[<<"b", "a", "r", " ", "b", "a", "z">>] = Rng(4, 7)
    /\ iter(line).spans = <<Span(TRUE, <<"f", "o", "o">>),
                            Span(FALSE, <<" ", "b", "a", "r", " ">>),
                            Span(TRUE, <<"b", "a", "z">>)>>

\* C8: every Line that exists has non-empty, sorted, non-overlapping
\* submatches, and Line::new or adjust_submatches handed a list that is not
\* so panics and yields no Line
C8_LineInvariant ==
    /\ lstate = "line" => SubmatchInvariant(line.submatches)
    /\ (op \in {"new", "adjust"} /\ ~SubmatchInvariant(checked)) => lstate = "panic"

\* an adjuster that moves a submatch onto its successor
C8_Witness ==
    /\ op = "adjust"
    /\ lstate = "panic"
    /\ SubmatchInvariant(orig.submatches)
    /\ Len(checked) = 2
    /\ checked[1].end > checked[2].start

\* ------------------------------------------- rg_worker.rs: the wire format
(***************************************************************************)
(* One record of the subprocess is one line of JSON.  The model writes a   *)
(* record as: a kind byte (b, m, c, e, s), its fields, the closing "}" and *)
(* the terminator "\n".  As with JSON, no proper prefix of a record        *)
(* decodes, and "\n" occurs in no record's body.  Fields: begin: the path  *)
(* bytes; context: the line number digit, the text bytes; match: the same, *)
(* then "|" and one digit pair per submatch; end and summary: none.        *)
(* "L","T" is a two-byte UTF-8 character (lead and continuation byte).     *)
(***************************************************************************)
NL == "\n"

TextBytes == {"x", "y", "p", "q", "L", "T"}

IsDigit(d) == \E n \in 1..Len(Digits10) : Digits10[n] = d

DigitVal(d) == (CHOOSE n \in 1..Len(Digits10) : Digits10[n] = d) - 1

Digit(n) == Digits10[n + 1]

\* the bytes the subprocess writes for one record
Encode(rec) ==
    (CASE rec.type = "begin" -> <<"b">> \o rec.path
       [] rec.type = "end" -> <<"e">>
       [] rec.type = "summary" -> <<"s">>
       [] rec.type = "context" -> <<"c", Digit(rec.line_number)>> \o rec.text
       [] rec.type = "match" ->
              <<"m", Digit(rec.line_number)>> \o rec.text \o <<"|">>
                  \o Concat([i \in 1..Len(rec.submatches) |->
                                <<Digit(rec.submatches[i].start),
                                  Digit(rec.submatches[i].end)>>]))
        \o <<"}", NL>>

\* str::find of one byte: its first index, 1-based; 0 for None
Find(s, b) ==
    IF \E i \in 1..Len(s) : s[i] = b
    THEN CHOOSE i \in 1..Len(s) : s[i] = b /\ \A j \in 1..(i - 1) : s[j] # b
    ELSE 0

\* std::str::from_utf8(chunk).is_ok(): every lead byte is followed by its
\* continuation byte within the chunk, every continuation byte follows one
from_utf8_ok(chunk) ==
    \A i \in 1..Len(chunk) :
        /\ chunk[i] = "L" => (i < Len(chunk) /\ chunk[i + 1] = "T")
        /\ chunk[i] = "T" => (i > 1 /\ chunk[i - 1] = "L")

AllIn(s, S) == \A i \in 1..Len(s) : s[i] \in S

\* serde_json::from_str(command): the record, or an error (ok = FALSE);
\* white space after the value is accepted, anything cut short is not
from_str(command) ==
    LET body == IF command # <<>> /\ command[Len(command)] = NL
                THEN SubSeq(command, 1, Len(command) - 1) ELSE command
        kind == body[1]
        payload == SubSeq(body, 2, Len(body) - 1)
        bar == Find(payload, "|")
        subs == SubSeq(payload, bar + 1, Len(payload))
    IN  IF Len(body) < 2 \/ body[Len(body)] # "}" THEN Panic
        ELSE IF kind = "b" /\ AllIn(payload, TextBytes)
        THEN [ok |-> TRUE, rec |-> [type |-> "begin", path |-> payload]]
        ELSE IF kind = "e" /\ payload = <<>>
        THEN [ok |-> TRUE, rec |-> [type |-> "end"]]
        ELSE IF kind = "s" /\ payload = <<>>
        THEN [ok |-> TRUE, rec |-> [type |-> "summary"]]
        ELSE IF kind = "c" /\ payload # <<>> /\ IsDigit(payload[1])
                /\ AllIn(Tail(payload), TextBytes)
        THEN [ok |-> TRUE,
              rec |-> [type |-> "context", line_number |-> DigitVal(payload[1]),
                       text |-> Tail(payload)]]
        ELSE IF kind = "m" /\ bar > 1 /\ IsDigit(payload[1])
                /\ AllIn(SubSeq(payload, 2, bar - 1), TextBytes)
                /\ Len(subs) % 2 = 0 /\ \A i \in 1..Len(subs) : IsDigit(subs[i])
        THEN [ok |-> TRUE,
              rec |-> [type |-> "match", line_number |-> DigitVal(payload[1]),
                       text |-> SubSeq(payload, 2, bar - 1),
                       submatches |-> [i \in 1..(Len(subs) \div 2) |->
                                          Rng(DigitVal(subs[2 * i - 1]),
                                              DigitVal(subs[2 * i]))]]]
        ELSE Panic

\* ------------------------------------------------ rg_worker.rs: the reader
\* MatchedFileBuilder::default()
NewBuilder == [file_path |-> <<>>, lines |-> <<>>]

\* MatchedFile::new
MatchedFile(file_path, lines) == [file_path |-> file_path, lines |-> lines]

\* what handle_command leaves: the builder and the file it is to push (none,
\* or one)
Handled(b, f) == [ok |-> TRUE, builder |-> b, found |-> f]

\* mutant: the line number of the record is stored as it is
push_context_one_based(b, rec, submatches) ==
    LET l == Line_new(rec.line_number, rec.text, submatches) IN
    IF rec.line_number = 0 \/ ~l.ok THEN Panic
    ELSE Handled([b EXCEPT !.lines = Append(b.lines, l.line)], <<>>)

\* RgWorker::push_context; rg numbers lines from 1, line_number 0 underflows
push_context(b, rec, submatches) ==
    LET l == Line_new(rec.line_number - 1, rec.text, submatches) IN
    IF rec.line_number = 0 \/ ~l.ok THEN Panic
    ELSE Handled([b EXCEPT !.lines = Append(b.lines, l.line)], <<>>)

\* mutant: build() clones the builder and does not take it
handle_command_keeps_builder(b, rec) ==
    IF rec.type = "begin" THEN Handled([b EXCEPT !.file_path = rec.path], <<>>)
    ELSE IF rec.type = "end"
    THEN Handled(b, <<MatchedFile(b.file_path, b.lines)>>)
    ELSE IF rec.type = "context" THEN push_context(b, rec, <<>>)
    ELSE IF rec.type = "match" THEN push_context(b, rec, rec.submatches)
    ELSE Handled(b, <<>>)

\* mutant: build() takes the path and leaves the lines in the builder
handle_command_keeps_lines(b, rec) ==
    IF rec.type = "begin" THEN Handled([b EXCEPT !.file_path = rec.path], <<>>)
    ELSE IF rec.type = "end"
    THEN Handled([b EXCEPT !.file_path = <<>>], <<MatchedFile(b.file_path, b.lines)>>)
    ELSE IF rec.type = "context" THEN push_context(b, rec, <<>>)
    ELSE IF rec.type = "match" THEN push_context(b, rec, rec.submatches)
    ELSE Handled(b, <<>>)

\* RgWorker::handle_command, up to matches.lock().push(found)
handle_command(b, rec) ==
    IF rec.type = "begin" THEN Handled([b EXCEPT !.file_path = rec.path], <<>>)
    ELSE IF rec.type = "end"
    THEN Handled(NewBuilder, <<MatchedFile(b.file_path, b.lines)>>)
    ELSE IF rec.type = "context" THEN push_context(b, rec, <<>>)
    ELSE IF rec.type = "match" THEN push_context(b, rec, rec.submatches)
    ELSE Handled(b, <<>>)

\* what one pass of the 'no_nl loop leaves
Passed(brk, buf, b, f, recs) ==
    [ok |-> TRUE, brk |-> brk, str_buf |-> buf, builder |-> b, found |-> f, recs |-> recs]

\* mutant: the text after the record is dropped, not kept for the next pass
no_nl_pass_drops_rest(buf, fin, b) ==
    LET cmd_end == IF fin THEN Len(buf) ELSE Find(buf, NL)
        command == SubSeq(buf, 1, cmd_end)
        value == from_str(command)
        h == handle_command(b, value.rec)
    IN  IF ~fin /\ cmd_end = 0 THEN Passed(TRUE, buf, b, <<>>, <<>>)
        ELSE IF command = <<>> THEN Passed(FALSE, <<>>, b, <<>>, <<>>)
        ELSE IF ~value.ok THEN Panic
        ELSE IF ~h.ok THEN Panic
        ELSE Passed(FALSE, <<>>, h.builder, h.found, <<value.rec>>)

\* mutant: a record is split off at a terminator only, also at end-of-stream
no_nl_pass_terminated_only(buf, fin, b) ==
    LET cmd_end == Find(buf, NL)
        command == SubSeq(buf, 1, cmd_end)
        rest == SubSeq(buf, cmd_end + 1, Len(buf))
        value == from_str(command)
        h == handle_command(b, value.rec)
    IN  IF ~fin /\ cmd_end = 0 THEN Passed(TRUE, buf, b, <<>>, <<>>)
        ELSE IF cmd_end = 0 THEN Passed(FALSE, <<>>, b, <<>>, <<>>)
        ELSE IF ~value.ok THEN Panic
        ELSE IF ~h.ok THEN Panic
        ELSE Passed(FALSE, rest, h.builder, h.found, <<value.rec>>)

\* one pass of the 'no_nl loop: break when there is no terminator and the
\* stream has not ended; else split the record off, decode and handle it
no_nl_pass(buf, fin, b) ==
    LET cmd_end == IF fin THEN Len(buf) ELSE Find(buf, NL)
        command == SubSeq(buf, 1, cmd_end)
        rest == SubSeq(buf, cmd_end + 1, Len(buf))
        value == from_str(command)
        h == handle_command(b, value.rec)
    IN  IF ~fin /\ cmd_end = 0 THEN Passed(TRUE, buf, b, <<>>, <<>>)
        ELSE IF command = <<>> THEN Passed(FALSE, rest, b, <<>>, <<>>)
        ELSE IF ~value.ok THEN Panic
        ELSE IF ~h.ok THEN Panic
        ELSE Passed(FALSE, rest, h.builder, h.found, <<value.rec>>)

\* where the reader goes after a pass: `if finished || str_buf.is_empty()
\* { break }`, then `if finished { break }`
AfterPass(p, fin) ==
    IF p.brk THEN "read"
    ELSE IF fin THEN "done"
    ELSE IF p.str_buf = <<>> THEN "read"
    ELSE "split"

RECURSIVE RunPasses(_, _, _, _)
\* the 'no_nl loop run to its break, with nothing else running: the state it
\* leaves and the files it has pushed
RunPasses(buf, fin, b, pushed) ==
    LET p == no_nl_pass(buf, fin, b) IN
    IF ~p.ok THEN [ok |-> FALSE, str_buf |-> buf, builder |-> b, pushed |-> pushed]
    ELSE IF AfterPass(p, fin) = "split"
    THEN RunPasses(p.str_buf, fin, p.builder, pushed \o p.found)
    ELSE [ok |-> TRUE, str_buf |-> p.str_buf, builder |-> p.builder,
          pushed |-> pushed \o p.found]

\* the reader thread fed `bytes` by one read and then end-of-stream
ReadInOneChunk(bytes) ==
    LET first == RunPasses(bytes, FALSE, NewBuilder, <<>>) IN
    IF ~from_utf8_ok(bytes) \/ ~first.ok THEN first
    ELSE RunPasses(first.str_buf, TRUE, first.builder, first.pushed)

\* --------------------------------------------------- inputs of SpecReader
MatchRec(n, text, submatches) ==
    [type |-> "match", line_number |-> n, text |-> text, submatches |-> submatches]

ContextRec(n, text) == [type |-> "context", line_number |-> n, text |-> text]

\* the files a subprocess may report: path and line records
Groups ==
    {[path |-> <<"p">>, lines |-> <<MatchRec(1, <<"x">>, <<Rng(0, 1)>>)>>],
     [path |-> <<"L", "T">>, lines |-> <<MatchRec(3, <<"y">>, <<Rng(0, 1)>>)>>],
     [path |-> <<"q">>,
      lines |-> <<ContextRec(1, <<"x">>),
                  MatchRec(2, <<"x", "y">>, <<Rng(0, 1), Rng(1, 2)>>)>>]}

\* the records of one file: begin, its lines, end
RecordsOf(g) == <<[type |-> "begin", path |-> g.path]>> \o g.lines \o <<[type |-> "end"]>>

\* the records of a run of files
AllRecords(groups) == Concat([i \in 1..Len(groups) |-> RecordsOf(groups[i])])

\* the bytes of a run of files
BytesOf(groups) ==
    LET recs == AllRecords(groups) IN Concat([i \in 1..Len(recs) |-> Encode(recs[i])])

\* the bytes of a run of files as the subprocess writes them, and the same
\* with the stream cut off before the terminator of the last record
StreamsOf(groups) ==
    LET bytes == BytesOf(groups)
    IN  {bytes} \cup (IF bytes = <<>> THEN {} ELSE {SubSeq(bytes, 1, Len(bytes) - 1)})

Min(a, b) == IF a < b THEN a ELSE b

\* ---------------------------------------------------- actions, SpecReader
\* RgWorker::new has spawned the subprocess and the reader thread
InitReader ==
    /\ LineOff
    /\ FqcnOff
    /\ ParseOff
    /\ WorkerOff
    /\ RewriteOff
    /\ UpdateOff
    /\ RecordOff
    /\ PollOff
    /\ LogOff
    /\ SyncOff
    /\ sent \in SeqsUpTo(Groups, MaxFiles)
    /\ input \in StreamsOf(sent)
    /\ stream = input
    /\ rpc = "read"
    /\ str_buf = <<>>
    /\ finished = FALSE
    /\ builder = NewBuilder
    /\ found = <<>>
    /\ results = <<>>
    /\ results_lock = "free"
    /\ handled = <<>>
    /\ search_state \in {"SearchingIdent", "SearchingFqcn"}
    /\ taken = <<>>

\* child_stdout.read(&mut buf), from_utf8(..).unwrap(), str_buf.push_str:
\* a read returns 0 only at end-of-stream, else any number of bytes that fit
RRead ==
    /\ rpc = "read"
    /\ \E num_read \in 0..Min(BufSize, Len(stream)) :
          /\ num_read = 0 <=> stream = <<>>
          /\ LET chunk == SubSeq(stream, 1, num_read) IN
             /\ stream' = SubSeq(stream, num_read + 1, Len(stream))
             /\ finished' = (num_read = 0)
             /\ IF from_utf8_ok(chunk)
                THEN rpc' = "split" /\ str_buf' = str_buf \o chunk
                ELSE rpc' = "panicked" /\ str_buf' = str_buf
    /\ UNCHANGED <<sent, input, builder, found, results, results_lock, handled,
                   search_state, taken>>
    /\ UNCHANGED <<lineVars, fqcnVars, parseVars, workerVars, rewriteVars, updateVars, recordVars, pollVars, logVars, syncVars>>

\* one pass of the 'no_nl loop; an `end` leaves its file to be pushed
RPass ==
    /\ rpc = "split"
    /\ LET p == no_nl_pass(str_buf, finished, builder) IN
       IF ~p.ok
       THEN /\ rpc' = "panicked"
            /\ UNCHANGED <<str_buf, builder, found, handled>>
       ELSE /\ str_buf' = p.str_buf
            /\ builder' = p.builder
            /\ found' = p.found
            /\ IF p.found # <<>>
               THEN rpc' = "push" /\ handled' = handled
               ELSE rpc' = AfterPass(p, finished) /\ handled' = handled \o p.recs
    /\ UNCHANGED <<sent, input, stream, finished, results, results_lock, search_state,
                   taken>>
    /\ UNCHANGED <<lineVars, fqcnVars, parseVars, workerVars, rewriteVars, updateVars, recordVars, pollVars, logVars, syncVars>>

\* matches.lock().push(found), the end of handle_command for an `end`
RPush ==
    /\ rpc = "push"
    /\ results_lock = "free"
    /\ results' = results \o found
    /\ found' = <<>>
    /\ handled' = Append(handled, [type |-> "end"])
    /\ rpc' = AfterPass(Passed(FALSE, str_buf, builder, <<>>, <<>>), finished)
    /\ UNCHANGED <<sent, input, stream, str_buf, finished, builder, results_lock,
                   search_state, taken>>
    /\ UNCHANGED <<lineVars, fqcnVars, parseVars, workerVars, rewriteVars, updateVars, recordVars, pollVars, logVars, syncVars>>

\* check_search_done, SearchingIdent: `let mut results = worker.results()`
PLock ==
    /\ search_state = "SearchingIdent"
    /\ results_lock = "free"
    /\ results_lock' = "poller"
    /\ UNCHANGED <<sent, input, stream, rpc, str_buf, finished, builder, found, results,
                   handled, search_state, taken>>
    /\ UNCHANGED <<lineVars, fqcnVars, parseVars, workerVars, rewriteVars, updateVars, recordVars, pollVars, logVars, syncVars>>

\* check_search_done, SearchingIdent: found_matches.append(results), and the
\* guard dropped at the end of the loop body
PAppend ==
    /\ results_lock = "poller"
    /\ taken' = taken \o results
    /\ results' = <<>>
    /\ results_lock' = "free"
    /\ UNCHANGED <<sent, input, stream, rpc, str_buf, finished, builder, found, handled,
                   search_state>>
    /\ UNCHANGED <<lineVars, fqcnVars, parseVars, workerVars, rewriteVars, updateVars, recordVars, pollVars, logVars, syncVars>>

\* mutant: the results are cloned out of the list and left in it
PTake_leaves_results ==
    /\ search_state = "SearchingFqcn"
    /\ results_lock = "free"
    /\ taken' = taken \o results
    /\ UNCHANGED <<sent, input, stream, rpc, str_buf, finished, builder, found, results,
                   results_lock, handled, search_state>>
    /\ UNCHANGED <<lineVars, fqcnVars, parseVars, workerVars, rewriteVars, updateVars, recordVars, pollVars, logVars, syncVars>>

\* check_search_done, SearchingFqcn: mem::take(&mut *worker.results())
PTake ==
    /\ search_state = "SearchingFqcn"
    /\ results_lock = "free"
    /\ taken' = taken \o results
    /\ results' = <<>>
    /\ UNCHANGED <<sent, input, stream, rpc, str_buf, finished, builder, found,
                   results_lock, handled, search_state>>
    /\ UNCHANGED <<lineVars, fqcnVars, parseVars, workerVars, rewriteVars, updateVars, recordVars, pollVars, logVars, syncVars>>

NextReader == RRead \/ RPass \/ RPush \/ PLock \/ PAppend \/ PTake

SpecReader == InitReader /\ [][NextReader]_vars

\* ----------------------------------------------------- claims, SpecReader
\* every file the reader has pushed so far, in order: those the poller has
\* taken and those still in the shared list
Published == taken \o results

\* the Line the reader is to build for one line record
LineOfRec(rec) ==
    [num |-> rec.line_number - 1, value |-> rec.text,
     submatches |-> IF rec.type = "match" THEN rec.submatches ELSE <<>>]

\* the MatchedFile of one reported file, complete
FileOf(g) == MatchedFile(g.path, [i \in 1..Len(g.lines) |-> LineOfRec(g.lines[i])])

\* one begin, one match and one end record
OneMatchFile(groups) ==
    /\ Len(groups) = 1
    /\ Len(groups[1].lines) = 1
    /\ groups[1].lines[1].type = "match"

ReaderEnded == rpc \in {"done", "panicked"}

\* C1: the bytes of one begin, one match and one end record, split in any
\* way over the reads, publish exactly one MatchedFile with one line, the
\* same as when the bytes arrive in a single chunk
C1_ChunkingIndependent ==
    (ReaderEnded /\ OneMatchFile(sent)) =>
        /\ Len(Published) = 1
        /\ Len(Published[1].lines) = 1
        /\ Published = ReadInOneChunk(input).pushed

\* C1, restricted to one-byte characters: the same statement for records in
\* which no chunk boundary can fall inside a character
C1_ChunkingIndependentAscii ==
    (ReaderEnded /\ OneMatchFile(sent) /\ AllIn(input, {b \in TextBytes : b \notin {"L", "T"}}
                                                    \cup {"b", "m", "c", "e", "s", "}", "|", NL}
                                                    \cup {Digits10[n] : n \in 1..Len(Digits10)})) =>
        /\ rpc = "done"
        /\ Published = <<FileOf(sent[1])>>
        /\ Published = ReadInOneChunk(input).pushed

IsEnd(rec) == rec.type = "end"

\* C2: in every state the files pushed to the shared list are exactly the
\* files whose `end` record has been handled, each one complete; what the
\* builder holds is in none of them
C2_OnlyCompletedFiles ==
    /\ handled = SubSeq(AllRecords(sent), 1, Len(handled))
    /\ Len(Published) = Len(SelectSeq(handled, IsEnd))
    /\ \A k \in 1..Len(Published) : k <= Len(sent) /\ Published[k] = FileOf(sent[k])

\* the poller holds the lock on a list of one complete file while the reader
\* is in the middle of the next file
C2_Witness ==
    /\ results_lock = "poller"
    /\ Len(results) = 1
    /\ rpc = "split"
    /\ builder.lines # <<>>
    /\ Len(builder.lines) < Len(sent[2].lines)

\* ------------------------------------------------------ fqcn_processor.rs
\* the texts of the model, byte by byte
PACKAGE == <<"p", "a", "c", "k", "a", "g", "e", " ">>

IMPORT == <<"i", "m", "p", "o", "r", "t", " ">>

S_foo_bar_Baz == <<"f", "o", "o", ".", "b", "a", "r", ".", "B", "a", "z">>

S_io_Radio == <<"i", "o", ".", "R", "a", "d", "i", "o">>

S_package_foo_bar ==
    <<"p", "a", "c", "k", "a", "g", "e", " ", "f", "o", "o", ".", "b", "a", "r">>

S_class_Baz == <<"c", "l", "a", "s", "s", " ", "B", "a", "z", " ", "{", "}", ";">>

S_import_foo_bar_Baz ==
    <<"i", "m", "p", "o", "r", "t", " ", "f", "o", "o", ".", "b", "a", "r", ".", "B",
      "a", "z", ";">>

S_import_com_other_Baz ==
    <<"i", "m", "p", "o", "r", "t", " ", "c", "o", "m", ".", "o", "t", "h", "e", "r",
      ".", "B", "a", "z", ";">>

S_import_com_foo_bar_Baz ==
    <<"i", "m", "p", "o", "r", "t", " ", "c", "o", "m", ".", "f", "o", "o", ".", "b",
      "a", "r", ".", "B", "a", "z", ";">>

S_Baz_b == <<"B", "a", "z", " ", "b", ";">>

S_new_foo_bar_Baz ==
    <<" ", "n", "e", "w", " ", "f", "o", "o", ".", "b", "a", "r", ".", "B", "a", "z",
      "(", "1", ",", " ", "2", ")", ";">>

S_package_foo_barista ==
    <<"p", "a", "c", "k", "a", "g", "e", " ", "f", "o", "o", ".", "b", "a", "r", "i",
      "s", "t", "a">>

S_import_foo_bar_Bazooka ==
    <<"i", "m", "p", "o", "r", "t", " ", "f", "o", "o", ".", "b", "a", "r", ".", "B",
      "a", "z", "o", "o", "k", "a", ";">>

S_Baz_myBaz ==
    <<" ", " ", " ", "B", "a", "z", " ", "m", "y", "B", "a", "z", " ", "=", " ", "n",
      "e", "w", " ", "B", "a", "z", "(", ")">>

S_package_io == <<"p", "a", "c", "k", "a", "g", "e", " ", "i", "o">>

S_class_Radio == <<"c", "l", "a", "s", "s", " ", "R", "a", "d", "i", "o">>

S_import_io_Radio ==
    <<"i", "m", "p", "o", "r", "t", " ", "i", "o", ".", "R", "a", "d", "i", "o", ";">>

S_Radio_r == <<"R", "a", "d", "i", "o", " ", "r", ";">>

\* str::starts_with
starts_with(s, prefix) == Len(prefix) <= Len(s) /\ SubSeq(s, 1, Len(prefix)) = prefix

\* the byte offsets at which pat occurs in s
Occurrences(s, pat) ==
    {i \in 0..(Len(s) - Len(pat)) : SubSeq(s, i + 1, i + Len(pat)) = pat}

\* str::contains
contains(s, pat) == Occurrences(s, pat) # {}

\* str::find, where it is Some: the first byte offset of pat in s
find(s, pat) == CHOOSE i \in Occurrences(s, pat) : \A j \in Occurrences(s, pat) : i <= j

\* Fqcn::value, Fqcn::package, Fqcn::ident
value_of(f) == f.value

package_of(f) == Slice(f.value, f.package_range.start, f.package_range.end)

ident_of(f) == Slice(f.value, f.ident_range.start, f.ident_range.end)

\* what a line contributes to saw_import and saw_package
SawImport(f, l) == starts_with(l.value, IMPORT) /\ contains(l.value, value_of(f))

SawPackage(f, l) ==
    /\ ~SawImport(f, l)
    /\ starts_with(l.value, PACKAGE)
    /\ contains(l.value, package_of(f))

\* mutant: the adjuster looks for the package before the full value
fqcn_adjuster_package_first(f, submatch) ==
    IF contains(submatch, package_of(f))
    THEN [range |-> Rng(find(submatch, package_of(f)),
                        find(submatch, package_of(f)) + Len(package_of(f))),
          saw_fqcn |-> contains(submatch, value_of(f)), saw_ident |-> FALSE]
    ELSE IF contains(submatch, ident_of(f))
    THEN [range |-> Rng(find(submatch, ident_of(f)),
                        find(submatch, ident_of(f)) + Len(ident_of(f))),
          saw_fqcn |-> FALSE, saw_ident |-> TRUE]
    ELSE [range |-> Rng(0, Len(submatch)), saw_fqcn |-> FALSE, saw_ident |-> FALSE]

\* mutant: a submatch narrowed to the package is given an empty range
fqcn_adjuster_empty_package(f, submatch) ==
    IF contains(submatch, value_of(f))
    THEN [range |-> Rng(find(submatch, value_of(f)),
                        find(submatch, value_of(f)) + Len(value_of(f))),
          saw_fqcn |-> TRUE, saw_ident |-> FALSE]
    ELSE IF contains(submatch, package_of(f))
    THEN [range |-> Rng(find(submatch, package_of(f)), find(submatch, package_of(f))),
          saw_fqcn |-> FALSE, saw_ident |-> FALSE]
    ELSE IF contains(submatch, ident_of(f))
    THEN [range |-> Rng(find(submatch, ident_of(f)),
                        find(submatch, ident_of(f)) + Len(ident_of(f))),
          saw_fqcn |-> FALSE, saw_ident |-> TRUE]
    ELSE [range |-> Rng(0, Len(submatch)), saw_fqcn |-> FALSE, saw_ident |-> FALSE]

\* the closure handed to adjust_submatches: the range it returns for a
\* submatch text, and the flags it sets
fqcn_adjuster(f, submatch) ==
    IF contains(submatch, value_of(f))
    THEN [range |-> Rng(find(submatch, value_of(f)),
                        find(submatch, value_of(f)) + Len(value_of(f))),
          saw_fqcn |-> TRUE, saw_ident |-> FALSE]
    ELSE IF contains(submatch, package_of(f))
    THEN [range |-> Rng(find(submatch, package_of(f)),
                        find(submatch, package_of(f)) + Len(package_of(f))),
          saw_fqcn |-> FALSE, saw_ident |-> FALSE]
    ELSE IF contains(submatch, ident_of(f))
    THEN [range |-> Rng(find(submatch, ident_of(f)),
                        find(submatch, ident_of(f)) + Len(ident_of(f))),
          saw_fqcn |-> FALSE, saw_ident |-> TRUE]
    ELSE [range |-> Rng(0, Len(submatch)), saw_fqcn |-> FALSE, saw_ident |-> FALSE]

\* mutant: any one signal keeps the file
keep_file_any(saw_fqcn, saw_import, saw_package, saw_ident) ==
    saw_fqcn \/ saw_import \/ saw_package \/ saw_ident

\* the value of the retain_mut closure
keep_file(saw_fqcn, saw_import, saw_package, saw_ident) ==
    saw_fqcn \/ saw_import \/ (saw_package /\ saw_ident)

\* mutant: the lines left without a submatch are taken out of the file
classify_drops_context(f, file) ==
    LET n == Len(file.lines)
        adjusted == [i \in 1..n |->
                        adjust_submatches(file.lines[i],
                            [t \in SubTexts(file.lines[i]) |-> fqcn_adjuster(f, t).range])]
        texts == UNION {SubTexts(file.lines[i]) : i \in 1..n}
        matched(l) == l.submatches # <<>>
    IN  IF \E i \in 1..n : ~adjusted[i].ok THEN Panic
        ELSE [ok |-> TRUE,
              file |-> MatchedFile(file.file_path,
                                   SelectSeq([i \in 1..n |-> adjusted[i].line], matched)),
              keep |-> keep_file(\E t \in texts : fqcn_adjuster(f, t).saw_fqcn,
                                 \E i \in 1..n : SawImport(f, file.lines[i]),
                                 \E i \in 1..n : SawPackage(f, file.lines[i]),
                                 \E t \in texts : fqcn_adjuster(f, t).saw_ident)]

\* the retain_mut closure of process_matched_file_fqcn on one file: the file
\* with its submatches adjusted, and whether it is retained
classify(f, file) ==
    LET n == Len(file.lines)
        adjusted == [i \in 1..n |->
                        adjust_submatches(file.lines[i],
                            [t \in SubTexts(file.lines[i]) |-> fqcn_adjuster(f, t).range])]
        texts == UNION {SubTexts(file.lines[i]) : i \in 1..n}
    IN  IF \E i \in 1..n : ~adjusted[i].ok THEN Panic
        ELSE [ok |-> TRUE,
              file |-> MatchedFile(file.file_path, [i \in 1..n |-> adjusted[i].line]),
              keep |-> keep_file(\E t \in texts : fqcn_adjuster(f, t).saw_fqcn,
                                 \E i \in 1..n : SawImport(f, file.lines[i]),
                                 \E i \in 1..n : SawPackage(f, file.lines[i]),
                                 \E t \in texts : fqcn_adjuster(f, t).saw_ident)]

\* ----------------------------------------------------- inputs of SpecFqcn
\* Fqcn::new("foo.bar.Baz") and Fqcn::new("io.Radio")
Fqcn_foo_bar_Baz ==
    [value |-> S_foo_bar_Baz, package_range |-> Rng(0, 7), ident_range |-> Rng(8, 11)]

Fqcn_io_Radio ==
    [value |-> S_io_Radio, package_range |-> Rng(0, 2), ident_range |-> Rng(3, 8)]

Fqcns == {Fqcn_foo_bar_Baz, Fqcn_io_Radio}

FLine(num, value, submatches) == [num |-> num, value |-> value, submatches |-> submatches]

\* lines of files found by a search for f: those of the tests of
\* fqcn_processor.rs, and lines with the submatches the search pattern of
\* search_for_fqcn gives; a line without submatches is a context line, and
\* `Baz b;` matched at `b` is a line another caller of the function may pass
LinesFor(f) ==
    IF f = Fqcn_foo_bar_Baz
    THEN {FLine(3, S_package_foo_bar, <<Rng(0, 15)>>),
          FLine(4, S_class_Baz, <<Rng(6, 9)>>),
          FLine(2, S_import_foo_bar_Baz, <<Rng(7, 18)>>),
          FLine(2, S_import_com_other_Baz, <<Rng(7, 20)>>),
          FLine(2, S_import_com_foo_bar_Baz, <<Rng(11, 22)>>),
          FLine(8, S_Baz_b, <<Rng(0, 3)>>),
          FLine(8, S_Baz_b, <<Rng(4, 5)>>),
          FLine(8, S_Baz_myBaz, <<Rng(3, 6), Rng(19, 22)>>),
          FLine(9, S_new_foo_bar_Baz, <<Rng(5, 16)>>),
          FLine(3, S_package_foo_barista, <<>>),
          FLine(2, S_import_foo_bar_Bazooka, <<>>)}
    ELSE {FLine(1, S_package_io, <<Rng(0, 10)>>),
          FLine(3, S_class_Radio, <<Rng(6, 11)>>),
          FLine(2, S_import_io_Radio, <<Rng(7, 15)>>),
          FLine(5, S_Radio_r, <<Rng(0, 5)>>)}

\* the files of one call: one file of up to MaxFileLines lines
FilesFor(f) ==
    {MatchedFile(<<"p">>, ls) :
        ls \in {s \in SeqsUpTo(LinesFor(f), MaxFileLines) :
                    \E i \in 1..Len(s) : s[i].submatches # <<>>}}

\* a second file of the same call: one matched line, at another path
OtherFilesFor(f) ==
    {MatchedFile(<<"q">>, <<l>>) : l \in {x \in LinesFor(f) : x.submatches # <<>>}}

\* ------------------------------------------------------ actions, SpecFqcn
InitFqcn ==
    /\ LineOff
    /\ ReaderOff
    /\ ParseOff
    /\ WorkerOff
    /\ RewriteOff
    /\ UpdateOff
    /\ RecordOff
    /\ PollOff
    /\ LogOff
    /\ SyncOff
    /\ fqcn \in Fqcns
    /\ files_in \in {<<file>> : file \in FilesFor(fqcn)}
                      \cup {<<file, other>> : file \in FilesFor(fqcn),
                                              other \in OtherFilesFor(fqcn)}
    /\ files_out = <<>>
    /\ kept = <<>>
    /\ fpc = "ready"

\* process_matched_file_fqcn(fqcn, files_in)
FProcess ==
    /\ fpc = "ready"
    /\ LET c == [i \in 1..Len(files_in) |-> classify(fqcn, files_in[i])]
           retained(r) == r.keep
       IN  IF \E i \in 1..Len(files_in) : ~c[i].ok
           THEN fpc' = "panicked" /\ UNCHANGED <<files_out, kept>>
           ELSE /\ fpc' = "done"
                /\ kept' = [i \in 1..Len(files_in) |-> c[i].keep]
                /\ files_out' = [i \in 1..Len(SelectSeq(c, retained)) |->
                                    SelectSeq(c, retained)[i].file]
    /\ UNCHANGED <<fqcn, files_in>>
    /\ UNCHANGED <<lineVars, readerVars, parseVars, workerVars, rewriteVars, updateVars, recordVars, pollVars, logVars, syncVars>>

NextFqcn == FProcess

SpecFqcn == InitFqcn /\ [][NextFqcn]_vars

\* ------------------------------------------------------- claims, SpecFqcn
AllSubTexts(file) == UNION {SubTexts(file.lines[i]) : i \in 1..Len(file.lines)}

\* a line starts with `package ` and contains the package
PackageEvidence(f, file) ==
    \E i \in 1..Len(file.lines) :
        starts_with(file.lines[i].value, PACKAGE)
            /\ contains(file.lines[i].value, package_of(f))

\* a line starts with `import ` and contains the full value
ImportEvidence(f, file) ==
    \E i \in 1..Len(file.lines) :
        starts_with(file.lines[i].value, IMPORT)
            /\ contains(file.lines[i].value, value_of(f))

\* a submatch contains the bare identifier (so also: the full FQCN)
IdentLevelMatch(f, file) == \E t \in AllSubTexts(file) : contains(t, ident_of(f))

\* a submatch contains the full FQCN
FullMatch(f, file) == \E t \in AllSubTexts(file) : contains(t, value_of(f))

\* C9 as stated: a retained file has package-or-import evidence and an
\* identifier-level match
C9_RetainedHasBothEvidences ==
    fpc = "done" =>
        \A i \in 1..Len(files_in) :
            kept[i] => /\ PackageEvidence(fqcn, files_in[i]) \/ ImportEvidence(fqcn, files_in[i])
                       /\ IdentLevelMatch(fqcn, files_in[i])

\* C9, amended: a retained file has a submatch containing the full FQCN, or
\* import evidence, or both package evidence and an identifier-level match;
\* a file with none of the three is discarded
C9_RetainedHasEvidence ==
    fpc = "done" =>
        \A i \in 1..Len(files_in) :
            kept[i] => \/ FullMatch(fqcn, files_in[i])
                       \/ ImportEvidence(fqcn, files_in[i])
                       \/ /\ PackageEvidence(fqcn, files_in[i])
                          /\ IdentLevelMatch(fqcn, files_in[i])

\* a file is retained for its full-FQCN submatch alone: none of its lines
\* shows package or import evidence
C9_Witness ==
    /\ fpc = "done"
    /\ kept[1]
    /\ files_out # <<>>
    /\ FullMatch(fqcn, files_in[1])
    /\ ~PackageEvidence(fqcn, files_in[1])
    /\ ~ImportEvidence(fqcn, files_in[1])

ends_with(s, suffix) ==
    Len(suffix) <= Len(s) /\ SubSeq(s, Len(s) - Len(suffix) + 1, Len(s)) = suffix

\* the line imports a class of the identifier's name from another package
OtherImport(f, l) ==
    /\ starts_with(l.value, IMPORT)
    /\ ends_with(l.value, <<".">> \o ident_of(f) \o <<";">>)
    /\ l.value # IMPORT \o value_of(f) \o <<";">>

\* the line is matched at the bare identifier and nowhere else
BareIdentLine(f, l) ==
    /\ ~starts_with(l.value, IMPORT)
    /\ ~starts_with(l.value, PACKAGE)
    /\ l.submatches # <<>>
    /\ SubTexts(l) = {ident_of(f)}

\* the file's only evidence: an import of a same-named class from another
\* package, and bare-identifier matches
OnlyOtherImport(f, file) ==
    /\ \E i \in 1..Len(file.lines) : OtherImport(f, file.lines[i])
    /\ \A i \in 1..Len(file.lines) :
           OtherImport(f, file.lines[i]) \/ BareIdentLine(f, file.lines[i])

\* C10: a file with a `package ` line containing the package and a submatch
\* containing the bare identifier is retained, a file with an `import ` line
\* containing the full value is retained, and a file whose only evidence is
\* an import of a same-named class from another package plus bare-identifier
\* matches is discarded
C10_RetainsAndDiscards ==
    fpc = "done" =>
        \A i \in 1..Len(files_in) :
            /\ (PackageEvidence(fqcn, files_in[i]) /\ IdentLevelMatch(fqcn, files_in[i]))
                   => kept[i]
            /\ ImportEvidence(fqcn, files_in[i]) => kept[i]
            /\ OnlyOtherImport(fqcn, files_in[i]) => ~kept[i]

\* C10 on the files of the tests of fqcn_processor.rs, for foo.bar.Baz
C10_OnTestFiles ==
    (fpc = "done" /\ fqcn = Fqcn_foo_bar_Baz) =>
        LET in == files_in[1].lines IN
        /\ in = <<FLine(3, S_package_foo_bar, <<Rng(0, 15)>>),
                  FLine(4, S_class_Baz, <<Rng(6, 9)>>)>>
             => /\ kept[1]
                /\ files_out[1].lines[1].submatches = <<Rng(8, 15)>>
                /\ files_out[1].lines[2].submatches = <<Rng(6, 9)>>
        /\ in = <<FLine(2, S_import_foo_bar_Baz, <<Rng(7, 18)>>)>> => kept[1]
        /\ in = <<FLine(2, S_import_com_other_Baz, <<Rng(7, 20)>>),
                  FLine(8, S_Baz_b, <<Rng(0, 3)>>)>>
             => ~kept[1]

\* the first occurrence of pat in the text of submatch r, as a range of the line
FirstIn(r, t, pat) ==
    LET at == CHOOSE i \in Occurrences(t, pat) : \A j \in Occurrences(t, pat) : i <= j
    IN  Rng(r.start + at, r.start + at + Len(pat))

\* what a submatch r of line l is to be narrowed to
Narrowed(f, l, r) ==
    LET t == Slice(l.value, r.start, r.end)
    IN  IF Occurrences(t, value_of(f)) # {} THEN FirstIn(r, t, value_of(f))
        ELSE IF Occurrences(t, package_of(f)) # {} THEN FirstIn(r, t, package_of(f))
        ELSE IF Occurrences(t, ident_of(f)) # {} THEN FirstIn(r, t, ident_of(f))
        ELSE r

\* C11: in a classified file every submatch is narrowed to the first
\* occurrence in its text of the full value, else of the package, else of the
\* identifier, and keeps its range when its text holds none of them; a
\* submatch holding the full value comes out as long as the full value
C11_NarrowingPriority ==
    (fpc = "done" /\ kept[1]) =>
        \A i \in 1..Len(files_in[1].lines) :
            LET l == files_in[1].lines[i]
                out == files_out[1].lines[i]
            IN  /\ out.value = l.value
                /\ Len(out.submatches) = Len(l.submatches)
                /\ \A k \in 1..Len(l.submatches) :
                       /\ out.submatches[k] = Narrowed(fqcn, l, l.submatches[k])
                       /\ contains(SubText(l, k), value_of(fqcn))
                              => SubText(out, k) = value_of(fqcn)

\* a retained file with a submatch narrowed to the package and one holding
\* the full value, left whole
C11_Witness ==
    /\ fpc = "done"
    /\ kept[1]
    /\ fqcn = Fqcn_foo_bar_Baz
    /\ files_in[1].lines = <<FLine(3, S_package_foo_bar, <<Rng(0, 15)>>),
                             FLine(9, S_new_foo_bar_Baz, <<Rng(5, 16)>>)>>
    /\ files_out[1].lines[1].submatches = <<Rng(8, 15)>>
    /\ files_out[1].lines[2].submatches = <<Rng(5, 16)>>

\* --------------------------------------------------------------- fqcn.rs
\* character classes of the pattern of Fqcn::new
LowerDigit == {"a", "b", "c", "d", "e", "f", "g", "h", "i", "j", "k", "l", "m", "n", "o",
               "p", "q", "r", "s", "t", "u", "v", "w", "x", "y", "z",
               "0", "1", "2", "3", "4", "5", "6", "7", "8", "9"}

Upper == {"A", "B", "C", "D", "E", "F", "G", "H", "I", "J", "K", "L", "M", "N", "O",
          "P", "Q", "R", "S", "T", "U", "V", "W", "X", "Y", "Z"}

\* [a-z0-9\.]
LowerDigitDot == LowerDigit \cup {"."}

\* \w
Word == LowerDigit \cup Upper \cup {"_"}

NoMatch == [matched |-> FALSE]

\* ([A-Z][\w]*)?$ tried at offset pos: group 3 takes all that is left, or
\* nothing is left
ident_opt_end(s, pos, g2) ==
    IF pos = Len(s) THEN [matched |-> TRUE, g2 |-> g2, g3 |-> <<>>]
    ELSE IF s[pos + 1] \in Upper /\ \A i \in (pos + 2)..Len(s) : s[i] \in Word
    THEN [matched |-> TRUE, g2 |-> g2, g3 |-> <<Rng(pos, Len(s))>>]
    ELSE NoMatch

\* the end of the longest run of [a-z0-9\.] from offset pos
RECURSIVE run_end(_, _)
run_end(s, pos) ==
    IF pos < Len(s) /\ s[pos + 1] \in LowerDigitDot THEN run_end(s, pos + 1) ELSE pos

\* ([a-z0-9][a-z0-9\.]+)+\. and the rest of the pattern, tried in the order
\* of a leftmost-first match: an iteration of group 2 from pos, longest
\* first; after it another iteration, else the `\.` and the rest; group 2
\* is the last iteration
RECURSIVE iterations_from(_, _), iteration_to(_, _, _)
iterations_from(s, pos) ==
    IF pos < Len(s) /\ s[pos + 1] \in LowerDigit
    THEN iteration_to(s, pos, run_end(s, pos + 1))
    ELSE NoMatch

iteration_to(s, pos, e) ==
    IF e < pos + 2 THEN NoMatch
    ELSE LET more == iterations_from(s, e)
             rest == IF e < Len(s) /\ s[e + 1] = "."
                     THEN ident_opt_end(s, e + 1, <<Rng(pos, e)>>)
                     ELSE NoMatch
         IN  IF more.matched THEN more
             ELSE IF rest.matched THEN rest
             ELSE iteration_to(s, pos, e - 1)

\* re.captures(value): groups 2 and 3, each absent (<<>>) or one range
captures(s) ==
    LET with_package == iterations_from(s, 0)
    IN  IF with_package.matched THEN with_package ELSE ident_opt_end(s, 0, <<>>)

None == [some |-> FALSE]

\* mutant: a package with a dot in it is refused
Fqcn_new_one_segment(s) ==
    LET c == captures(s)
    IN  IF ~c.matched \/ c.g2 = <<>> \/ c.g3 = <<>> THEN None
        ELSE IF \E i \in (c.g2[1].start + 1)..c.g2[1].end : s[i] = "." THEN None
        ELSE [some |-> TRUE, value |-> s, package_range |-> c.g2[1],
              ident_range |-> c.g3[1]]

\* mutant: a value that ends with the package's dot is given the empty identifier
Fqcn_new_ident_optional(s) ==
    LET c == captures(s)
    IN  IF ~c.matched \/ c.g2 = <<>> THEN None
        ELSE [some |-> TRUE, value |-> s, package_range |-> c.g2[1],
              ident_range |-> IF c.g3 = <<>> THEN Rng(Len(s), Len(s)) ELSE c.g3[1]]

\* Fqcn::new
Fqcn_new(s) ==
    LET c == captures(s)
    IN  IF ~c.matched \/ c.g2 = <<>> \/ c.g3 = <<>> THEN None
        ELSE [some |-> TRUE, value |-> s, package_range |-> c.g2[1],
              ident_range |-> c.g3[1]]

\* Fqcn::package and Fqcn::ident of a parsed value; the slice panics when
\* the range is not inside the value
package(f) ==
    IF SliceOk(f.value, f.package_range.start, f.package_range.end)
    THEN [ok |-> TRUE, str |-> Slice(f.value, f.package_range.start, f.package_range.end)]
    ELSE Panic

ident(f) ==
    IF SliceOk(f.value, f.ident_range.start, f.ident_range.end)
    THEN [ok |-> TRUE, str |-> Slice(f.value, f.ident_range.start, f.ident_range.end)]
    ELSE Panic

\* ------------------------------------------------------ inputs of SpecParse
MaxValueLen == 5   \* longest generic value handed to Fqcn::new

\* one character of each class of the pattern, and one of none
ValueChars == {"a", ".", "B", "_", "-"}

S_foo_bar == <<"f", "o", "o", ".", "b", "a", "r">>

S_foo_bar_Baz_Smaz ==
    <<"f", "o", "o", ".", "b", "a", "r", ".", "B", "a", "z", ".", "S", "m", "a", "z">>

Values ==
    SeqsUpTo(ValueChars, MaxValueLen) \cup {S_foo_bar_Baz, S_foo_bar, S_foo_bar_Baz_Smaz, S_io_Radio}

\* ------------------------------------------------------ actions, SpecParse
InitParse ==
    /\ LineOff
    /\ ReaderOff
    /\ FqcnOff
    /\ WorkerOff
    /\ RewriteOff
    /\ UpdateOff
    /\ RecordOff
    /\ PollOff
    /\ LogOff
    /\ SyncOff
    /\ new_arg \in Values
    /\ parsed = None
    /\ ppc = "ready"

\* Fqcn::new(value)
FNew ==
    /\ ppc = "ready"
    /\ parsed' = Fqcn_new(new_arg)
    /\ ppc' = "done"
    /\ UNCHANGED new_arg
    /\ UNCHANGED <<lineVars, readerVars, fqcnVars, workerVars, rewriteVars, updateVars, recordVars, pollVars, logVars, syncVars>>

NextParse == FNew

SpecParse == InitParse /\ [][NextParse]_vars

\* -------------------------------------------------------- claims, SpecParse
\* lowercase-segment: [a-z0-9][a-z0-9.]+
IsSegment(t) ==
    /\ Len(t) >= 2
    /\ t[1] \in LowerDigit
    /\ \A i \in 2..Len(t) : t[i] \in LowerDigitDot

\* (lowercase-segment '.')+
RECURSIVE IsPackagePart(_)
IsPackagePart(t) ==
    \E k \in 3..Len(t) :
        /\ t[k] = "."
        /\ IsSegment(SubSeq(t, 1, k - 1))
        /\ k = Len(t) \/ IsPackagePart(SubSeq(t, k + 1, Len(t)))

\* UppercaseIdent
IsIdent(t) == Len(t) >= 1 /\ t[1] \in Upper /\ \A i \in 2..Len(t) : t[i] \in Word

\* s is a package part of k bytes (none when k = 0) and then an identifier
\* (none when k = Len(s))
SplitsAt(s, k) ==
    /\ k = 0 \/ IsPackagePart(SubSeq(s, 1, k))
    /\ k = Len(s) \/ IsIdent(SubSeq(s, k + 1, Len(s)))

\* ((lowercase-segment '.')+)? (UppercaseIdent)?
InGrammar(s) == \E k \in 0..Len(s) : SplitsAt(s, k)

\* the same with both parts there
InGrammarBoth(s) == \E k \in 1..(Len(s) - 1) : SplitsAt(s, k)

\* C12 as stated: Fqcn::new returns Some for every string of the grammar
C12_GrammarGivesSome == (ppc = "done" /\ InGrammar(new_arg)) => parsed.some

\* C12, amended: Fqcn::new returns Some for every string of the grammar
\* that has both the package part and the identifier, and None for a string
\* of the grammar that lacks one of them
C12_FullGrammarGivesSome ==
    ppc = "done" =>
        /\ InGrammarBoth(new_arg) => parsed.some
        /\ (InGrammar(new_arg) /\ ~InGrammarBoth(new_arg)) => parsed = None

\* a value whose package holds a dot has been parsed
C12_Witness ==
    /\ ppc = "done"
    /\ InGrammarBoth(new_arg)
    /\ Len(new_arg) <= MaxValueLen
    /\ parsed.some
    /\ \E i \in 1..(parsed.package_range.end) : new_arg[i] = "."

\* the bytes of s after its last dot; all of s when it has no dot
LastSegment(s) ==
    LET dots == {i \in 1..Len(s) : s[i] = "."}
        last == IF dots = {} THEN 0 ELSE CHOOSE i \in dots : \A j \in dots : j <= i
    IN  SubSeq(s, last + 1, Len(s))

\* s does not end with a capitalized identifier segment
LacksIdent(s) == ~IsIdent(LastSegment(s))

\* s goes on after an identifier: an optional package part, an identifier,
\* and then a byte that cannot belong to the identifier
ExtraAfterIdent(s) ==
    \E k \in 0..Len(s), j \in 1..(Len(s) - 1) :
        /\ k < j
        /\ k = 0 \/ IsPackagePart(SubSeq(s, 1, k))
        /\ IsIdent(SubSeq(s, k + 1, j))
        /\ s[j + 1] \notin Word

\* C13: Fqcn::new returns None for every string that does not end with a
\* capitalized identifier segment and for every string with content after
\* the identifier
C13_NoneWithoutIdentOrWithExtra ==
    (ppc = "done" /\ (LacksIdent(new_arg) \/ ExtraAfterIdent(new_arg))) => parsed = None

\* a package followed by its dot and nothing else has been refused
C13_Witness ==
    /\ ppc = "done"
    /\ new_arg = <<"a", "a", ".">>
    /\ LacksIdent(new_arg)
    /\ parsed = None

\* C13 on the strings of test_works: foo.bar lacks the identifier and
\* foo.bar.Baz.Smaz goes on after it; both give None
C13_OnTestValues ==
    /\ LacksIdent(S_foo_bar) /\ Fqcn_new(S_foo_bar) = None
    /\ ExtraAfterIdent(S_foo_bar_Baz_Smaz) /\ Fqcn_new(S_foo_bar_Baz_Smaz) = None

\* C14: when Fqcn::new returns Some, package() and ident() are substrings of
\* the value, the value is package ++ "." ++ ident, and the package does not
\* end with a dot
C14_PackageDotIdent ==
    (ppc = "done" /\ parsed.some) =>
        /\ package(parsed).ok
        /\ ident(parsed).ok
        /\ new_arg = package(parsed).str \o <<".">> \o ident(parsed).str
        /\ package(parsed).str # <<>>
        /\ package(parsed).str[Len(package(parsed).str)] # "."

\* C14 without its last part: the value is package ++ "." ++ ident, with the
\* package and the identifier not empty
C14_Concatenation ==
    (ppc = "done" /\ parsed.some) =>
        /\ package(parsed).ok
        /\ ident(parsed).ok
        /\ parsed.value = new_arg
        /\ new_arg = package(parsed).str \o <<".">> \o ident(parsed).str
        /\ package(parsed).str # <<>>
        /\ ident(parsed).str # <<>>
        /\ parsed.package_range = Rng(0, Len(package(parsed).str))
        /\ parsed.ident_range = Rng(Len(package(parsed).str) + 1, Len(new_arg))

\* the Fqcn values the classification is run on are those Fqcn::new gives
C14_OnTestValues ==
    /\ Fqcn_new(S_foo_bar_Baz) = [some |-> TRUE] @@ Fqcn_foo_bar_Baz
    /\ Fqcn_new(S_io_Radio) = [some |-> TRUE] @@ Fqcn_io_Radio

\* ------------------------------------- app.rs / rg_worker.rs: worker lifecycle
MaxSearches == 2   \* most searches started, one RgWorker each
MaxChunks == 1     \* most chunks of output one subprocess writes

\* RgWorker::new: the subprocess runs, the reader thread runs, the pipe is empty
NewWorker ==
    [process |-> "running",   \* "running" | "exited" | "reaped" (no longer a child to wait for)
     thread |-> "running",    \* the reader: "running" | "eof" | "panicked"
     handle |-> TRUE,         \* RgWorker::thread is Some
     joined |-> FALSE,        \* the reader has been joined
     unread |-> 0,            \* chunks in the pipe
     written |-> 0]           \* chunks the subprocess has written

\* Child::try_wait: Ok(None) while the subprocess runs, Ok(Some(status)) once
\* it has exited, Err when there is no child to wait for
try_wait(w) ==
    IF w.process = "running" THEN "none"
    ELSE IF w.process = "exited" THEN "some"
    ELSE "err"

\* mutant: finished() never returns true
RgWorker_finished_never(w) == FALSE

\* RgWorker::finished
RgWorker_finished(w) ==
    /\ IF w.handle THEN w.thread # "running" ELSE TRUE
    /\ try_wait(w) # "none"

\* the finished() calls of `workers.iter_mut().all(..)`: all() stops at the
\* first worker that is not finished
RECURSIVE Observations(_)
Observations(ws) ==
    IF ws = <<>> THEN <<>>
    ELSE LET w == spawned[Head(ws)]
             o == [worker |-> Head(ws), result |-> RgWorker_finished(w),
                   process |-> w.process, thread |-> w.thread]
         IN  IF o.result THEN <<o>> \o Observations(Tail(ws)) ELSE <<o>>

\* set_idle, after kill_workers has returned to check_search_done or to
\* search_button_submitted
Return ==
    /\ app_state' = "Idle"
    /\ killing' = <<>>
    /\ caller' = "none"
    /\ apc' = "loop"

\* ----------------------------------------------------- actions, SpecWorker
InitWorker ==
    /\ LineOff
    /\ ReaderOff
    /\ FqcnOff
    /\ ParseOff
    /\ RewriteOff
    /\ UpdateOff
    /\ RecordOff
    /\ PollOff
    /\ LogOff
    /\ SyncOff
    /\ app_state = "Idle"
    /\ workers = <<>>
    /\ spawned = <<>>
    /\ apc = "loop"
    /\ killing = <<>>
    /\ caller = "none"
    /\ errors = <<>>
    /\ sigchld_ignored \in BOOLEAN
    /\ observed = <<>>

IsStartError(e) == e = "Error starting rg"

\* the searches started so far, spawned or not
Searches == Len(spawned) + Len(SelectSeq(errors, IsStartError))

\* search_button_submitted in Idle (also by search_input_submitted):
\* search_for_fqcn or search_for_raw_ident; RgWorker::new may fail to spawn
Submit ==
    /\ apc = "loop"
    /\ app_state = "Idle"
    /\ Searches < MaxSearches
    /\ \E mode \in {"SearchingFqcn", "SearchingIdent"}, spawn_ok \in BOOLEAN :
           IF spawn_ok
           THEN /\ spawned' = Append(spawned, NewWorker)
                /\ workers' = Append(workers, Len(spawned) + 1)
                /\ app_state' = mode
                /\ UNCHANGED errors
           ELSE /\ errors' = Append(errors, "Error starting rg")
                /\ app_state' = IF mode = "SearchingIdent" THEN mode ELSE app_state
                /\ UNCHANGED <<spawned, workers>>
    /\ UNCHANGED <<apc, killing, caller, sigchld_ignored, observed>>
    /\ UNCHANGED <<lineVars, readerVars, fqcnVars, parseVars, rewriteVars, updateVars, recordVars, pollVars, logVars, syncVars>>

\* mutant: kill_workers without workers is not followed by set_idle
BeginKillWorkers_keeps_state(who) ==
    IF workers = <<>>
    THEN UNCHANGED <<app_state, killing, caller, apc, workers, spawned, errors>>
    ELSE /\ killing' = workers
         /\ workers' = <<>>
         /\ caller' = who
         /\ apc' = "kill"
         /\ UNCHANGED <<app_state, spawned, errors>>

\* kill_workers, up to its loop: nothing to do without workers, else the
\* workers are taken out of the App
BeginKillWorkers(who) ==
    IF workers = <<>>
    THEN Return /\ UNCHANGED <<workers, spawned, errors>>
    ELSE /\ killing' = workers
         /\ workers' = <<>>
         /\ caller' = who
         /\ apc' = "kill"
         /\ UNCHANGED <<app_state, spawned, errors>>

\* search_button_submitted while searching: kill_workers, then set_idle
StopSearch ==
    /\ apc = "loop"
    /\ app_state # "Idle"
    /\ BeginKillWorkers("stop")
    /\ UNCHANGED <<sigchld_ignored, observed>>
    /\ UNCHANGED <<lineVars, readerVars, fqcnVars, parseVars, rewriteVars, updateVars, recordVars, pollVars, logVars, syncVars>>

\* check_search_done, from `if self.workers.iter_mut().all(..)`
check_search_done ==
    /\ apc = "loop"
    /\ observed' = Observations(workers)
    /\ IF \A i \in 1..Len(workers) : RgWorker_finished(spawned[workers[i]])
       THEN BeginKillWorkers("poll")
       ELSE UNCHANGED <<app_state, workers, spawned, apc, killing, caller, errors>>
    /\ UNCHANGED sigchld_ignored
    /\ UNCHANGED <<lineVars, readerVars, fqcnVars, parseVars, rewriteVars, updateVars, recordVars, pollVars, logVars, syncVars>>

\* what the handlers log when kill_workers returns Err
KillErrors ==
    <<"error killing worker",
      IF caller = "poll" THEN "Error killing workers" ELSE "error stopping search">>

\* kill_and_wait, up to the join: the subprocess is killed only when
\* try_wait fails; kill of a child that is gone fails (ESRCH), or returns Ok
\* when its pid has gone to another process; a failed kill returns by `?`
kill_and_wait ==
    /\ apc = "kill"
    /\ LET w == spawned[Head(killing)]
       IN  IF try_wait(w) = "err"
           THEN \E kill_ok \in BOOLEAN :
                   IF kill_ok
                   THEN apc' = "join" /\ UNCHANGED <<app_state, killing, caller, errors>>
                   ELSE Return /\ errors' = errors \o KillErrors
           ELSE apc' = "join" /\ UNCHANGED <<app_state, killing, caller, errors>>
    /\ UNCHANGED <<workers, spawned, sigchld_ignored, observed>>
    /\ UNCHANGED <<lineVars, readerVars, fqcnVars, parseVars, rewriteVars, updateVars, recordVars, pollVars, logVars, syncVars>>

\* mutant: the join does not give the reader's panic back as an error
join_ignores_panic ==
    /\ apc = "join"
    /\ spawned[Head(killing)].thread # "running"
    /\ spawned' = [spawned EXCEPT ![Head(killing)].handle = FALSE,
                                  ![Head(killing)].joined = TRUE]
    /\ IF Tail(killing) = <<>>
       THEN Return /\ UNCHANGED errors
       ELSE /\ killing' = Tail(killing)
            /\ apc' = "kill"
            /\ UNCHANGED <<app_state, caller, errors>>
    /\ UNCHANGED <<workers, sigchld_ignored, observed>>
    /\ UNCHANGED <<lineVars, readerVars, fqcnVars, parseVars, rewriteVars, updateVars, recordVars, pollVars, logVars, syncVars>>

\* thread.take().map(|thread| thread.join()): returns when the reader has
\* ended, with Err when it panicked; kill_workers goes on to the next
\* worker, or returns
join ==
    /\ apc = "join"
    /\ spawned[Head(killing)].thread # "running"
    /\ spawned' = [spawned EXCEPT ![Head(killing)].handle = FALSE,
                                  ![Head(killing)].joined = TRUE]
    /\ IF spawned[Head(killing)].thread = "panicked"
       THEN Return /\ errors' = errors \o KillErrors
       ELSE IF Tail(killing) = <<>>
       THEN Return /\ UNCHANGED errors
       ELSE /\ killing' = Tail(killing)
            /\ apc' = "kill"
            /\ UNCHANGED <<app_state, caller, errors>>
    /\ UNCHANGED <<workers, sigchld_ignored, observed>>
    /\ UNCHANGED <<lineVars, readerVars, fqcnVars, parseVars, rewriteVars, updateVars, recordVars, pollVars, logVars, syncVars>>

Others == <<app_state, workers, apc, killing, caller, errors, sigchld_ignored, observed>>

\* the subprocess writes a chunk of output to the pipe
ProcessWrites(i) ==
    /\ spawned[i].process = "running"
    /\ spawned[i].thread # "panicked"
    /\ spawned[i].written < MaxChunks
    /\ spawned' = [spawned EXCEPT ![i].unread = @ + 1, ![i].written = @ + 1]
    /\ UNCHANGED Others
    /\ UNCHANGED <<lineVars, readerVars, fqcnVars, parseVars, rewriteVars, updateVars, recordVars, pollVars, logVars, syncVars>>

\* the subprocess exits; with SIGCHLD ignored it is reaped at once
ProcessExits(i) ==
    /\ spawned[i].process = "running"
    /\ spawned' = [spawned EXCEPT ![i].process =
                       IF sigchld_ignored THEN "reaped" ELSE "exited"]
    /\ UNCHANGED Others
    /\ UNCHANGED <<lineVars, readerVars, fqcnVars, parseVars, rewriteVars, updateVars, recordVars, pollVars, logVars, syncVars>>

\* the reader thread reads a chunk and handles it, or panics on it (an
\* unwrap of from_utf8 or from_str)
ReaderReads(i) ==
    /\ spawned[i].thread = "running"
    /\ spawned[i].unread > 0
    /\ \E panics \in BOOLEAN :
           spawned' = [spawned EXCEPT ![i].unread = @ - 1,
                                      ![i].thread = IF panics THEN "panicked" ELSE @]
    /\ UNCHANGED Others
    /\ UNCHANGED <<lineVars, readerVars, fqcnVars, parseVars, rewriteVars, updateVars, recordVars, pollVars, logVars, syncVars>>

\* the reader thread reads 0 bytes: the pipe is empty and the subprocess,
\* its only writer, is gone
ReaderEnds(i) ==
    /\ spawned[i].thread = "running"
    /\ spawned[i].unread = 0
    /\ spawned[i].process # "running"
    /\ spawned' = [spawned EXCEPT ![i].thread = "eof"]
    /\ UNCHANGED Others
    /\ UNCHANGED <<lineVars, readerVars, fqcnVars, parseVars, rewriteVars, updateVars, recordVars, pollVars, logVars, syncVars>>

NextWorker ==
    \/ Submit
    \/ StopSearch
    \/ check_search_done
    \/ kill_and_wait
    \/ join
    \/ \E i \in 1..Len(spawned) : ProcessWrites(i)
    \/ \E i \in 1..Len(spawned) : ProcessExits(i)
    \/ \E i \in 1..Len(spawned) : ReaderReads(i)
    \/ \E i \in 1..Len(spawned) : ReaderEnds(i)

SpecWorker == InitWorker /\ [][NextWorker]_vars

\* the polling loop of run_app calls check_search_done every 100 ms, the UI
\* thread goes on inside kill_workers, the reader thread is scheduled, and
\* the subprocess of a search exits
FairWorker ==
    /\ WF_vars(check_search_done)
    /\ WF_vars(kill_and_wait)
    /\ WF_vars(join)
    /\ \A i \in 1..MaxSearches :
           /\ WF_vars(i <= Len(spawned) /\ ProcessExits(i))
           /\ WF_vars(i <= Len(spawned) /\ ReaderReads(i))
           /\ WF_vars(i <= Len(spawned) /\ ReaderEnds(i))

SpecWorkerFair == InitWorker /\ [][NextWorker]_vars /\ FairWorker

\* ------------------------------------------------------ claims, SpecWorker
\* C15: kill_and_wait has terminated the subprocess by the time it joins the
\* reader thread: while the UI thread waits in the join, the subprocess of
\* the worker is not running
C15_KilledBeforeJoin ==
    apc = "join" => spawned[Head(killing)].process # "running"

\* the join of a worker whose subprocess runs returns only after the
\* subprocess has exited by itself: no step of kill_and_wait or join ends a
\* running subprocess
C15_JoinWaitsForExit ==
    [][(kill_and_wait \/ join) =>
          \A i \in 1..Len(spawned) :
              spawned[i].process = "running" => spawned'[i].process = "running"]_vars

Held(i) == \E k \in 1..Len(workers) : workers[k] = i

InTeardown(i) == \E k \in 1..Len(killing) : killing[k] = i

\* C16: cancellation completes for every worker, also when a kill or a join
\* fails: once kill_workers has returned, the App holds no workers and the
\* reader of every worker it held has been joined, and a failure is in the
\* log
C16_CancellationCompletes ==
    /\ (apc = "loop" /\ app_state = "Idle") => workers = <<>>
    /\ apc = "loop" =>
           \A i \in 1..Len(spawned) : ~Held(i) => spawned[i].joined
    /\ \A i \in 1..Len(spawned) :
           (spawned[i].joined /\ spawned[i].thread = "panicked")
               => \E k \in 1..Len(errors) : errors[k] = "error killing worker"

\* C16 but for the join after a failed kill: the App holds no workers once
\* idle, a worker taken out of the App whose reader was not joined is one
\* whose kill failed, which is in the log, and so is a failed join
C16_CompletesButForFailedKill ==
    /\ (apc = "loop" /\ app_state = "Idle") => workers = <<>>
    /\ apc = "loop" =>
           \A i \in 1..Len(spawned) :
               (~Held(i) /\ ~spawned[i].joined)
                   => /\ spawned[i].process = "reaped"
                      /\ \E k \in 1..Len(errors) : errors[k] = "error killing worker"
    /\ \A i \in 1..Len(spawned) :
           (spawned[i].joined /\ spawned[i].thread = "panicked")
               => \E k \in 1..Len(errors) : errors[k] = "error killing worker"

\* the App holds one worker at most: a search starts from Idle only, and
\* Idle is set after kill_workers has emptied App::workers
C16_AtMostOneWorker == Len(workers) <= 1 /\ Len(killing) <= 1

\* C17 as stated: finished() returns false whenever the subprocess is still
\* running or the reader has not reached end-of-stream, so it returns true
\* only when the subprocess has exited and the reader has read to the end
C17_FinishedMeansExitedAndEof ==
    \A k \in 1..Len(observed) :
        (observed[k].process = "running" \/ observed[k].thread # "eof")
            => ~observed[k].result

\* what finished() does return: true exactly when the subprocess is no
\* longer running and the reader thread has ended, at end-of-stream or by a
\* panic before it
C17_FinishedMeansExitedAndEnded ==
    \A k \in 1..Len(observed) :
        observed[k].result <=>
            (observed[k].process # "running" /\ observed[k].thread \in {"eof", "panicked"})

AllFinished == \A i \in 1..Len(workers) : RgWorker_finished(spawned[workers[i]])

MaxContent == 4    \* most bytes of the file that is rewritten
MaxReplaces == 2   \* most times replace is submitted

FF == "\f"         \* a line break of the Rope that is not one of the search's

\* the bytes of a file: the identifier searched for, a blank, and line breaks
ContentBytes == {"a", " ", NL, FF}

\* the identifier searched for and its replacement
FindIdent == <<"a">>

ReplIdent == <<"c", "c">>

IsWordByte(c) == c \in {"a", "c"}

P == <<"p">>

Q == <<"q">>

\* format!("{}{}", file_path, ".bak")
backup_file_path(file_path) == file_path \o <<".", "b", "a", "k">>

Paths == {P, Q, backup_file_path(P), backup_file_path(Q)}

NoFile == [exists |-> FALSE, bytes |-> <<>>]

File(bytes) == [exists |-> TRUE, bytes |-> bytes]

\* the lines the search counts: each ends with its "\n", but for a last
\* line without one
RECURSIVE RgLines(_)
RgLines(bytes) ==
    IF bytes = <<>> THEN <<>>
    ELSE LET nls == {i \in 1..Len(bytes) : bytes[i] = NL}
             k == IF nls = {} THEN Len(bytes) ELSE CHOOSE i \in nls : \A j \in nls : i <= j
         IN  <<SubSeq(bytes, 1, k)>> \o RgLines(SubSeq(bytes, k + 1, Len(bytes)))

\* the submatches of \bident\b in a line, for an identifier of one byte
RgSubmatches(text) ==
    LET hits == {i \in 0..(Len(text) - 1) :
                    /\ text[i + 1] = FindIdent[1]
                    /\ i = 0 \/ ~IsWordByte(text[i])
                    /\ i + 1 = Len(text) \/ ~IsWordByte(text[i + 2])}
        RECURSIVE InOrder(_)
        InOrder(from) ==
            IF {i \in hits : i >= from} = {} THEN <<>>
            ELSE LET i == CHOOSE i \in hits : i >= from /\ \A j \in hits : j >= from => i <= j
                 IN  <<Rng(i, i + 1)>> \o InOrder(i + 1)
    IN  InOrder(0)

\* the MatchedFile the identifier search (-C1) publishes for a file: its
\* matched lines and the lines next to them, numbered from 0
FoundFile(path, bytes) ==
    LET ls == RgLines(bytes)
        matched(i) == i \in 1..Len(ls) /\ RgSubmatches(ls[i]) # <<>>
        shown(i) == matched(i - 1) \/ matched(i) \/ matched(i + 1)
        RECURSIVE From(_)
        From(i) ==
            IF i > Len(ls) THEN <<>>
            ELSE IF shown(i) THEN <<FLine(i - 1, ls[i], RgSubmatches(ls[i]))>> \o From(i + 1)
            ELSE From(i + 1)
    IN  MatchedFile(path, From(1))

\* MatchedFile::replace with the closure |_| ident of update_replacements
MatchedFile_replace(mf, repl_ident) ==
    MatchedFile(mf.file_path,
                [i \in 1..Len(mf.lines) |->
                    replace(mf.lines[i], [t \in SubTexts(mf.lines[i]) |-> repl_ident]).line])

\* Rope::line_to_char: the char index of the start of line line_idx, the
\* length for the line one past the last; it panics beyond that
line_to_char(contents, line_idx) ==
    LET ends == {i \in 1..Len(contents) : contents[i] \in line_breaks}
        len_lines == Cardinality(ends) + 1
    IN  IF line_idx > len_lines THEN Panic
        ELSE IF line_idx = len_lines THEN [ok |-> TRUE, idx |-> Len(contents)]
        ELSE IF line_idx = 0 THEN [ok |-> TRUE, idx |-> 0]
        ELSE [ok |-> TRUE,
              idx |-> CHOOSE i \in ends : Cardinality({j \in ends : j <= i}) = line_idx]

\* contents.remove(start_idx..end_idx); contents.insert(start_idx, value)
splice(contents, start_idx, end_idx, value) ==
    SubSeq(contents, 1, start_idx) \o value \o SubSeq(contents, end_idx + 1, Len(contents))

\* the loop of execute_replacement over replacement.lines()
RECURSIVE replace_lines(_, _)
replace_lines(contents, lines) ==
    IF lines = <<>> THEN [ok |-> TRUE, contents |-> contents]
    ELSE LET start_idx == line_to_char(contents, Head(lines).num)
             end_idx == line_to_char(contents, Head(lines).num + 1)
         IN  IF ~start_idx.ok \/ ~end_idx.ok THEN Panic
             ELSE replace_lines(splice(contents, start_idx.idx, end_idx.idx, Head(lines).value),
                                Tail(lines))

Replaced(result, d) == [result |-> result, disk |-> d]

\* mutant: the backup is written whether or not one exists
execute_replacement_overwrites(d, replacement) ==
    LET file_path == replacement.file_path
        backed_up == [d EXCEPT ![backup_file_path(file_path)] = d[file_path]]
        contents == replace_lines(d[file_path].bytes, replacement.lines)
    IN  IF ~contents.ok THEN Replaced("panicked", backed_up)
        ELSE Replaced("ok", [backed_up EXCEPT ![file_path] = File(contents.contents)])

\* App::execute_replacement: refuse when the backup exists, copy the file to
\* the backup, load it, replace the lines, write it back
execute_replacement(d, replacement) ==
    LET file_path == replacement.file_path
        backed_up == [d EXCEPT ![backup_file_path(file_path)] = d[file_path]]
        contents == replace_lines(d[file_path].bytes, replacement.lines)
    IN  IF d[backup_file_path(file_path)].exists THEN Replaced("already exists", d)
        ELSE IF ~d[file_path].exists THEN Replaced("io error", d)
        ELSE IF ~contents.ok THEN Replaced("panicked", backed_up)
        ELSE Replaced("ok", [backed_up EXCEPT ![file_path] = File(contents.contents)])

\* the loop of execute_replacements: `?` leaves it at the first failure
RECURSIVE execute_replacements(_, _)
execute_replacements(d, replacements) ==
    IF replacements = <<>> THEN Replaced("ok", d)
    ELSE LET one == execute_replacement(d, Head(replacements))
         IN  IF one.result = "ok" THEN execute_replacements(one.disk, Tail(replacements))
             ELSE one

\* ----------------------------------------------------- inputs of SpecRewrite
\* the files with a match of the identifier
RewriteContents ==
    {bytes \in SeqsUpTo(ContentBytes, MaxContent) :
        \E i \in 1..Len(RgLines(bytes)) : RgSubmatches(RgLines(bytes)[i]) # <<>>}

OldBackup == <<"o", "l", "d">>

QContent == <<"a", NL>>

\* ---------------------------------------------------- actions, SpecRewrite
\* a search has published its files and update_replacements has run
InitRewrite ==
    /\ LineOff
    /\ ReaderOff
    /\ FqcnOff
    /\ ParseOff
    /\ WorkerOff
    /\ UpdateOff
    /\ RecordOff
    /\ PollOff
    /\ LogOff
    /\ SyncOff
    /\ \E bytes \in RewriteContents, with_q \in BOOLEAN,
          backups \in SUBSET {backup_file_path(P), backup_file_path(Q)} :
           /\ backup_file_path(Q) \in backups => with_q
           /\ disk = [path \in Paths |->
                         IF path = P THEN File(bytes)
                         ELSE IF path = Q /\ with_q THEN File(QContent)
                         ELSE IF path \in backups THEN File(OldBackup)
                         ELSE NoFile]
           /\ replacments =
                  <<MatchedFile_replace(FoundFile(P, bytes), ReplIdent)>>
                      \o (IF with_q THEN <<MatchedFile_replace(FoundFile(Q, QContent), ReplIdent)>>
                          ELSE <<>>)
    /\ disk_before = disk
    /\ rw_search_state \in {"Idle", "SearchingIdent"}
    /\ rw_errors = <<>>
    /\ outcomes = <<>>
    /\ line_breaks \in {{NL}, {NL, FF}}

\* App::replace_input_submitted, with execute_replacements: the error of a
\* search in progress is logged and the replacements are executed all the
\* same; App::replacments is taken, and put back only on success
replace_input_submitted ==
    /\ Len(outcomes) < MaxReplaces
    /\ \A k \in 1..Len(outcomes) : outcomes[k] # "panicked"
    /\ LET done == execute_replacements(disk, replacments)
       IN  /\ disk' = done.disk
           /\ outcomes' = Append(outcomes, done.result)
           /\ replacments' = IF done.result = "ok" THEN replacments ELSE <<>>
           /\ rw_errors' = rw_errors
                  \o (IF rw_search_state # "Idle"
                      THEN <<"cannot do replace while searching">> ELSE <<>>)
                  \o (IF done.result \in {"already exists", "io error"}
                      THEN <<"error replacing">> ELSE <<>>)
    /\ disk_before' = disk
    /\ UNCHANGED <<rw_search_state, line_breaks>>
    /\ UNCHANGED <<lineVars, readerVars, fqcnVars, parseVars, workerVars, updateVars, recordVars, pollVars, logVars, syncVars>>

NextRewrite == replace_input_submitted

SpecRewrite == InitRewrite /\ [][NextRewrite]_vars

\* ------------------------------------------------------ claims, SpecRewrite
SourcePaths == {P, Q}

\* the files execute_replacements comes to: those of App::replacments up to
\* the first whose backup exists
RECURSIVE ComesTo(_, _)
ComesTo(d, replacements) ==
    IF replacements = <<>> THEN {}
    ELSE IF d[backup_file_path(Head(replacements).file_path)].exists
    THEN {Head(replacements).file_path}
    ELSE {Head(replacements).file_path} \cup ComesTo(d, Tail(replacements))

AbortedOn(d, replacements) ==
    {path \in ComesTo(d, replacements) : d[backup_file_path(path)].exists}

\* C19: when <path>.bak exists as a file is about to be rewritten, the
\* rewrite of that file is aborted with a reported error: the backup and the
\* file keep their bytes, and "error replacing" is logged; so it is, too, for
\* a replace submitted again after one that succeeded.
C19_ExistingBackupAborts ==
    [][/\ \A path \in SourcePaths :
              disk[backup_file_path(path)].exists =>
                  /\ disk'[backup_file_path(path)] = disk[backup_file_path(path)]
                  /\ disk'[path] = disk[path]
       /\ AbortedOn(disk, replacments) # {} =>
              /\ outcomes' = Append(outcomes, "already exists")
              /\ Len(rw_errors') > Len(rw_errors)
              /\ rw_errors'[Len(rw_errors')] = "error replacing"]_vars

\* a replace has succeeded and rewritten p, and the one submitted after it
\* was aborted on the backup the first had made
C19_Witness ==
    /\ outcomes = <<"ok", "already exists">>
    /\ disk[backup_file_path(P)].exists
    /\ disk[backup_file_path(P)].bytes # disk[P].bytes
    /\ disk_before = disk
    /\ rw_errors # <<>>
    /\ rw_errors[Len(rw_errors)] = "error replacing"

\* the files a replace rewrote: all of App::replacments, when it succeeded
Rewritten(d, replacements) ==
    IF AbortedOn(d, replacements) = {} THEN ComesTo(d, replacements) ELSE {}

Carries(replacements, path) ==
    UNION {{replacements[k].lines[i].num : i \in 1..Len(replacements[k].lines)} :
              k \in {j \in 1..Len(replacements) : replacements[j].file_path = path}}

\* the lines of a file, as the search numbers them, from 0
LineAt(bytes, num) == RgLines(bytes)[num + 1]

OnlyCarriedLinesDiffer(before, after, nums) ==
    /\ Len(RgLines(after)) = Len(RgLines(before))
    /\ \A num \in 0..(Len(RgLines(before)) - 1) :
           num \notin nums => LineAt(after, num) = LineAt(before, num)

\* C20: a rewrite that succeeds leaves <path>.bak with the bytes the file had
\* before it, and the file differs from those bytes only on the lines the
\* MatchedFile carries: the other lines keep their content, and the file
\* keeps its number of lines (no replacement text here has a newline).
C20_OnlyCarriedLinesChange ==
    [][\A path \in Rewritten(disk, replacments) :
           /\ outcomes' = Append(outcomes, "ok")
           /\ disk'[backup_file_path(path)] = File(disk[path].bytes)
           /\ OnlyCarriedLinesDiffer(disk[path].bytes, disk'[path].bytes,
                                     Carries(replacments, path))]_vars

\* the same where the Rope breaks lines where the search does, at "\n" only;
\* there each carried line has become the line of the MatchedFile as well
C20_WhereLineBreaksAgree ==
    [][line_breaks = {NL} =>
          \A k \in 1..Len(replacments) :
              LET path == replacments[k].file_path
              IN  path \in Rewritten(disk, replacments) =>
                      /\ outcomes' = Append(outcomes, "ok")
                      /\ disk'[backup_file_path(path)] = File(disk[path].bytes)
                      /\ OnlyCarriedLinesDiffer(disk[path].bytes, disk'[path].bytes,
                                                Carries(replacments, path))
                      /\ \A i \in 1..Len(replacments[k].lines) :
                             LineAt(disk'[path].bytes, replacments[k].lines[i].num)
                                 = replacments[k].lines[i].value]_vars

\* ------------------------------------- app.rs: update_replacements (FQCN)
\* the closure of update_replacements_fqcn: the replacement of a matched
\* text, and unreachable!() for a text that is none of the three parts
fqcn_replacer(find_f, repl_f, matched) ==
    IF matched = ident_of(find_f) THEN [ok |-> TRUE, str |-> ident_of(repl_f)]
    ELSE IF matched = value_of(find_f) THEN [ok |-> TRUE, str |-> value_of(repl_f)]
    ELSE IF matched = package_of(find_f) THEN [ok |-> TRUE, str |-> package_of(repl_f)]
    ELSE Panic

\* the closure |ident| { .. } as Line::replace calls it, for the texts of a line
fqcn_replacer_of(find_f, repl_f, l) ==
    [t \in SubTexts(l) |->
        IF fqcn_replacer(find_f, repl_f, t).ok THEN fqcn_replacer(find_f, repl_f, t).str ELSE <<>>]

\* mf.replace(|ident| ..) of update_replacements_fqcn
fqcn_replace_file(find_f, repl_f, mf) ==
    IF \E i \in 1..Len(mf.lines) :
           \E t \in SubTexts(mf.lines[i]) : ~fqcn_replacer(find_f, repl_f, t).ok
    THEN Panic
    ELSE [ok |-> TRUE,
          file |-> MatchedFile(mf.file_path,
                       [i \in 1..Len(mf.lines) |->
                           replace(mf.lines[i], fqcn_replacer_of(find_f, repl_f, mf.lines[i])).line])]

Updated(ok, replacements) == [ok |-> ok, replacments |-> replacements]

\* App::update_replacements_fqcn: the replacements pushed, up to a panic
RECURSIVE update_replacements_fqcn(_, _, _, _)
update_replacements_fqcn(find_f, repl_f, matches, pushed) ==
    IF matches = <<>> THEN Updated(TRUE, pushed)
    ELSE LET one == fqcn_replace_file(find_f, repl_f, Head(matches))
         IN  IF ~one.ok THEN Updated(FALSE, pushed)
             ELSE update_replacements_fqcn(find_f, repl_f, Tail(matches), Append(pushed, one.file))

\* App::update_replacements
update_replacements(find_ident, repl_ident, matches) ==
    LET find_fqcn == Fqcn_new(find_ident)
        repl_fqcn == Fqcn_new(repl_ident)
        as_ident == IF repl_ident = <<>> THEN find_ident ELSE repl_ident
    IN  IF find_fqcn.some
        THEN IF repl_fqcn.some
             THEN update_replacements_fqcn(find_fqcn, repl_fqcn, matches, <<>>)
             ELSE update_replacements_fqcn(find_fqcn, find_fqcn, matches, <<>>)
        ELSE Updated(TRUE, [k \in 1..Len(matches) |-> MatchedFile_replace(matches[k], as_ident)])

\* ------------------------------------------------------ inputs of SpecUpdate
S_package_foo_bar_other ==
    <<"p", "a", "c", "k", "a", "g", "e", " ", "f", "o", "o", "_", "b", "a", "r">>

S_ab_Cd == <<"a", "b", ".", "C", "d">>

S_Cd == <<"C", "d">>

\* lines of files the pattern of search_for_fqcn finds: those of LinesFor
\* whose submatches it gives, and `package foo_bar`, which it matches
\* because the `.` of the package is a wildcard of the pattern
SearchLinesFor(f) ==
    {l \in LinesFor(f) :
        \A t \in SubTexts(l) : contains(t, package_of(f)) \/ contains(t, ident_of(f))}
        \cup (IF f = Fqcn_foo_bar_Baz
              THEN {FLine(0, S_package_foo_bar_other, <<Rng(0, 15)>>)} ELSE {})

SearchFilesFor(f) ==
    {MatchedFile(<<"p">>, ls) :
        ls \in {s \in SeqsUpTo(SearchLinesFor(f), MaxFileLines) :
                    \E i \in 1..Len(s) : s[i].submatches # <<>>}}

\* what check_search_done appends to found_matches for the files of a worker
Retained(f, files) ==
    LET c == [i \in 1..Len(files) |-> classify(f, files[i])]
        retained(r) == r.ok /\ r.keep
    IN  [i \in 1..Len(SelectSeq(c, retained)) |-> SelectSeq(c, retained)[i].file]

\* ------------------------------------------------------ actions, SpecUpdate
\* an FQCN search has put its retained files into found_matches
InitUpdate ==
    /\ LineOff
    /\ ReaderOff
    /\ FqcnOff
    /\ ParseOff
    /\ WorkerOff
    /\ RewriteOff
    /\ RecordOff
    /\ PollOff
    /\ LogOff
    /\ SyncOff
    /\ \E f \in Fqcns :
           /\ search_for_ident = value_of(f)
           /\ \E file \in SearchFilesFor(f) : found_matches = Retained(f, <<file>>)
    /\ replace_with_ident \in {S_ab_Cd, S_io_Radio, S_Cd, <<>>}
    /\ new_replacments = <<>>
    /\ upc = "ready"

\* App::update_replacements, called by check_search_done when results changed
UpdateReplacements ==
    /\ upc = "ready"
    /\ LET u == update_replacements(search_for_ident, replace_with_ident, found_matches)
       IN  /\ new_replacments' = u.replacments
           /\ upc' = IF u.ok THEN "done" ELSE "panicked"
    /\ UNCHANGED <<found_matches, search_for_ident, replace_with_ident>>
    /\ UNCHANGED <<lineVars, readerVars, fqcnVars, parseVars, workerVars, rewriteVars, recordVars, pollVars, logVars, syncVars>>

NextUpdate == UpdateReplacements

SpecUpdate == InitUpdate /\ [][NextUpdate]_vars

\* ------------------------------------------------------- claims, SpecUpdate
FindFqcn == Fqcn_new(search_for_ident)

ReplFqcn == Fqcn_new(replace_with_ident)

\* a span of a line as the claim has it after the replacement: a matched
\* part of the searched FQCN has become the same part of the new one, other
\* text is as it was
PartMapped(span) ==
    IF ~span.is_match THEN span
    ELSE IF span.text = value_of(FindFqcn) THEN Span(TRUE, value_of(ReplFqcn))
    ELSE IF span.text = package_of(FindFqcn) THEN Span(TRUE, package_of(ReplFqcn))
    ELSE IF span.text = ident_of(FindFqcn) THEN Span(TRUE, ident_of(ReplFqcn))
    ELSE span

LineMapped(old, new) ==
    /\ new.num = old.num
    /\ iter(new).ok
    /\ iter(new).spans = [j \in 1..Len(iter(old).spans) |-> PartMapped(iter(old).spans[j])]

AllMapped ==
    /\ Len(new_replacments) = Len(found_matches)
    /\ \A k \in 1..Len(found_matches) :
           /\ new_replacments[k].file_path = found_matches[k].file_path
           /\ Len(new_replacments[k].lines) = Len(found_matches[k].lines)
           /\ \A i \in 1..Len(found_matches[k].lines) :
                  LineMapped(found_matches[k].lines[i], new_replacments[k].lines[i])

\* C21: with a valid replacement FQCN, update_replacements maps each submatch
\* equal to the searched full value to the new full value, each equal to the
\* searched package to the new package, each equal to the searched identifier
\* to the new identifier, and keeps the unmatched text of every line.
C21_MapsEachPart ==
    (upc \in {"done", "panicked"} /\ ReplFqcn.some) => AllMapped

\* the same of every update_replacements that returns
C21_MapsEachPartWhenReturned ==
    (upc = "done" /\ ReplFqcn.some) => AllMapped

\* an update has returned for a file with a matched package and a matched
\* identifier
C21_ReturnedWitness ==
    /\ upc = "done"
    /\ ReplFqcn.some
    /\ found_matches # <<>>
    /\ \E i, j \in 1..Len(found_matches[1].lines) :
           /\ package_of(FindFqcn) \in SubTexts(found_matches[1].lines[i])
           /\ ident_of(FindFqcn) \in SubTexts(found_matches[1].lines[j])

MaxErrors == 2 * MaxSearches

ReaderPanicked(i) == i <= Len(spawned) /\ spawned[i].thread = "panicked"

C22_PublishedKept ==
    [][/\ Len(Published') >= Len(Published)
       /\ SubSeq(Published', 1, Len(Published)) = Published
       /\ rpc = "panicked" => (rpc' = "panicked" /\ Published' = Published)]_vars

FailedStart == Submit /\ errors' # errors

\* C23: when spawning the subprocess fails, no worker is added and the error
\* is in the event log; the search state is Idle at once on the FQCN path,
\* and on the identifier path, where SearchingIdent was set before the
\* spawn, the next check_search_done finds no workers and sets Idle; a new
\* search can then be started.
C23_FailedSpawnGivesIdle ==
    /\ [][FailedStart =>
            /\ workers' = workers
            /\ spawned' = spawned
            /\ errors' = Append(errors, "Error starting rg")
            /\ app_state' \in {"Idle", "SearchingIdent"}]_vars
    /\ (workers = <<>> /\ killing = <<>> /\ app_state = "SearchingIdent")
           ~> (workers = <<>> /\ app_state = "Idle" /\ apc = "loop")
    /\ [][(check_search_done /\ workers = <<>>) => app_state' = "Idle"]_vars

\* a search has failed to start, which is in the log, the App has come back
\* to Idle without a worker, and the search started after it runs
C23_Witness ==
    /\ errors = <<"Error starting rg">>
    /\ observed = <<>>
    /\ Len(spawned) = 1
    /\ workers = <<1>>
    /\ app_state = "SearchingIdent"

\* ------------------------------------------------ more claims, SpecReader
HasTerminator(buf) == \E i \in 1..Len(buf) : buf[i] = NL

\* the pass at end-of-stream has decoded the whole of buf as one record and
\* handled it: the record is in `handled`, or, for an `end`, its file is
\* about to be pushed
FlushedAsOne(buf) ==
    /\ from_str(buf).ok
    /\ str_buf' = <<>>
    /\ \/ handled' = Append(handled, from_str(buf).rec) /\ rpc' = "done"
       \/ /\ from_str(buf).rec.type = "end"
          /\ rpc' = "push"
          /\ found' = <<MatchedFile(builder.file_path, builder.lines)>>

\* C24: at end-of-stream the reader decodes the whole of a non-empty buffer
\* as one last record, terminator or none, and decodes nothing when the
\* buffer is empty; before that, the buffer left when a chunk has been
\* processed holds no terminator, so what is flushed is one record at most.
C24_FlushAtEndOfStream ==
    [][/\ (RPass /\ finished) =>
              IF str_buf = <<>>
              THEN rpc' = "done" /\ UNCHANGED <<handled, found, builder, results>>
              ELSE FlushedAsOne(str_buf)
       /\ rpc' = "read" => ~HasTerminator(str_buf')
       /\ (RRead /\ finished') => ~HasTerminator(str_buf')]_vars

\* the stream has ended without the terminator of its last record, and the
\* reader has decoded that record and published its file
C24_Witness ==
    /\ rpc = "done"
    /\ input # <<>>
    /\ input[Len(input)] # NL
    /\ Len(sent) = 2
    /\ Published = [i \in 1..Len(sent) |-> FileOf(sent[i])]
    /\ handled[Len(handled)] = [type |-> "end"]

\* the files the claim has published for a run of handled records: each
\* `begin` opens a file with its path, each line record after it adds its
\* line, each `end` closes the file
RECURSIVE FilesOfRecords(_, _, _)
FilesOfRecords(recs, open, closed) ==
    IF recs = <<>> THEN [open |-> open, closed |-> closed]
    ELSE LET rec == Head(recs)
         IN  IF rec.type = "begin"
             THEN FilesOfRecords(Tail(recs), MatchedFile(rec.path, <<>>), closed)
             ELSE IF rec.type \in {"match", "context"}
             THEN FilesOfRecords(Tail(recs),
                                 MatchedFile(open.file_path, Append(open.lines, LineOfRec(rec))),
                                 closed)
             ELSE IF rec.type = "end"
             THEN FilesOfRecords(Tail(recs), NewBuilder, Append(closed, open))
             ELSE FilesOfRecords(Tail(recs), open, closed)

\* C25: each published MatchedFile has the path of the `begin` that opened it
\* and exactly the lines of the `match` and `context` records between that
\* `begin` and its `end`, in the order they came; when an `end` has been
\* handled the accumulator is empty, so nothing of a file gets into the next.
C25_FilePerBeginEnd ==
    /\ Published = FilesOfRecords(handled, NewBuilder, <<>>).closed
    /\ rpc \in {"read", "split", "done"} =>
           builder = FilesOfRecords(handled, NewBuilder, <<>>).open
    /\ (handled # <<>> /\ handled[Len(handled)].type = "end") => builder = NewBuilder
    /\ rpc = "push" => builder = NewBuilder

\* two files with different paths and lines have been published one after
\* the other, each with its own path and lines
C25_Witness ==
    /\ rpc = "done"
    /\ Len(Published) = 2
    /\ Published[1].file_path # Published[2].file_path
    /\ Published[1] = FileOf(sent[1])
    /\ Published[2] = FileOf(sent[2])
    /\ Len(Published[1].lines) = 2
    /\ Len(Published[2].lines) = 1

\* ------------------------------------- rg_worker.rs: one record, SpecRecord
MaxLineNumber == 3 \* largest line_number of a record
MaxRanges == 2     \* most submatches of a match record

RecordTexts == {<<"x">>, <<"x", "y">>}

\* the submatches the search may report for a text: ranges within it, in
\* order and apart; a pattern that matches the empty string gives empty ones
RangesIn(text) ==
    {rs \in SeqsUpTo({Rng(s, e) : s \in 0..Len(text), e \in 0..Len(text)}, MaxRanges) :
        /\ \A i \in 1..Len(rs) : rs[i].start <= rs[i].end
        /\ \A i \in 1..(Len(rs) - 1) :
               rs[i].end <= rs[i + 1].start /\ rs[i].start < rs[i + 1].start}

LineRecords ==
    UNION {{MatchRec(n, text, rs) : n \in 1..MaxLineNumber, rs \in RangesIn(text)} :
              text \in RecordTexts}
        \cup {ContextRec(n, text) : n \in 1..MaxLineNumber, text \in RecordTexts}

Builders ==
    {NewBuilder,
     [file_path |-> <<"p">>, lines |-> <<>>],
     [file_path |-> <<"p">>, lines |-> <<Line_new(0, <<"y">>, <<>>).line>>]}

InitRecord ==
    /\ LineOff
    /\ ReaderOff
    /\ FqcnOff
    /\ ParseOff
    /\ WorkerOff
    /\ RewriteOff
    /\ UpdateOff
    /\ PollOff
    /\ LogOff
    /\ SyncOff
    /\ record \in LineRecords
    /\ builder_before \in Builders
    /\ builder_after = builder_before
    /\ hpc = "ready"

\* the reader has the bytes of the record in str_buf: one pass of the
\* 'no_nl loop decodes and handles it
HandleRecord ==
    /\ hpc = "ready"
    /\ LET p == no_nl_pass(Encode(record), FALSE, builder_before)
       IN  IF p.ok
           THEN hpc' = "done" /\ builder_after' = p.builder
           ELSE hpc' = "panicked" /\ builder_after' = builder_before
    /\ UNCHANGED <<record, builder_before>>
    /\ UNCHANGED <<lineVars, readerVars, fqcnVars, parseVars, workerVars, rewriteVars, updateVars, pollVars, logVars, syncVars>>

NextRecord == HandleRecord

SpecRecord == InitRecord /\ [][NextRecord]_vars

\* ------------------------------------------------------ claims, SpecRecord
\* the record has added one Line to the builder: its number the record's
\* line_number less 1, its text lines.text, its submatches as given
YieldsLine(submatches) ==
    /\ hpc = "done"
    /\ builder_after.file_path = builder_before.file_path
    /\ builder_after.lines =
           Append(builder_before.lines,
                  [num |-> record.line_number - 1, value |-> record.text,
                   submatches |-> submatches])

\* C26 as stated: every `match` record yields one Line with the number
\* line_number - 1, the text lines.text and all the ranges of the record in
\* order, every `context` record one Line with no submatches and the same
\* number
C26_EveryRecordYieldsLine ==
    hpc # "ready" =>
        IF record.type = "match" THEN YieldsLine(record.submatches) ELSE YieldsLine(<<>>)

HasEmptyRange(rec) == \E i \in 1..Len(rec.submatches) : RangeIsEmpty(rec.submatches[i])

\* C26, amended: a `match` record whose ranges are all non-empty yields that
\* Line; one with an empty range yields none, Line::new panics on it and the
\* builder is left as it was; a `context` record yields its Line with no
\* submatches
C26_RecordYieldsLineOrPanics ==
    hpc # "ready" =>
        IF record.type = "context" THEN YieldsLine(<<>>)
        ELSE IF HasEmptyRange(record)
        THEN hpc = "panicked" /\ builder_after = builder_before
        ELSE YieldsLine(record.submatches)

\* a match record with two submatches has been added as the second line of
\* a file
C26_Witness ==
    /\ hpc = "done"
    /\ record.type = "match"
    /\ Len(record.submatches) = 2
    /\ record.line_number = 3
    /\ Len(builder_after.lines) = 2
    /\ builder_after.lines[2].num = 2
    /\ builder_after.lines[2].submatches = record.submatches

\* a match record with an empty range has made the reader panic
C26_PanicWitness ==
    /\ hpc = "panicked"
    /\ record.type = "match"
    /\ HasEmptyRange(record)

\* -------------------------------------------------- more claims, SpecLine
\* the adjuster returns an empty relative range for every submatch text
AllEmpty(adjuster) == \A t \in DOMAIN adjuster : RangeIsEmpty(adjuster[t])

ContextLine(l) == [num |-> l.num, value |-> l.value, submatches |-> <<>>]

\* C27: an adjuster that returns an empty relative range for every submatch
\* makes adjust_submatches remove all submatches: the line iterates as one
\* unmatched span, its text, and is the context line of that text and
\* number; adjusting it again, with any adjuster, changes nothing.
C27_EmptyAdjusterGivesContext ==
    (op = "adjust" /\ Within(orig) /\ AllEmpty(farg)) =>
        /\ lstate = "line"
        /\ line = ContextLine(orig)
        /\ iter(line).ok
        /\ orig.submatches # <<>> => iter(line).spans = <<Span(FALSE, orig.value)>>
        /\ iter(line) = iter(Line_new(orig.num, orig.value, <<>>).line)
        /\ \A adjuster \in [SubTexts(line) -> AdjRanges] :
               adjust_submatches(line, adjuster) = [ok |-> TRUE, line |-> line]

\* two submatches, one adjusted to 0..0 and one to 2..1, have both gone
C27_Witness ==
    /\ op = "adjust"
    /\ lstate = "line"
    /\ Len(orig.submatches) = 2
    /\ Cardinality(DOMAIN farg) = 2
    /\ AllEmpty(farg)
    /\ \E t \in DOMAIN farg : farg[t] = Rng(2, 1)
    /\ line.submatches = <<>>

\* ------------------------------------------------ more claims, SpecRewrite
\* C30: replace is not executed while a search is in progress: a replace
\* submitted in a state other than Idle logs "cannot do replace while
\* searching" and backs up and rewrites no file.
C30_NoReplaceWhileSearching ==
    [][rw_search_state # "Idle" =>
          /\ disk' = disk
          /\ \E k \in 1..Len(rw_errors') :
                 k > Len(rw_errors) /\ rw_errors'[k] = "cannot do replace while searching"]_vars

\* what replace_input_submitted does while a search is in progress: the
\* error is logged, and the replacements are executed as in Idle
C30_ReplacesWhileSearching ==
    [][rw_search_state # "Idle" =>
          /\ rw_errors'[Len(rw_errors) + 1] = "cannot do replace while searching"
          /\ disk' = execute_replacements(disk, replacments).disk]_vars

\* C29: draining is drain-and-clear: what the poller takes it takes out of
\* the shared list, so each published file is taken once at most and none
\* is in found_matches twice; while the poller holds the lock the reader
\* appends nothing, and no file of the list is dropped by the clear.
C29_DrainAndClear ==
    /\ [][/\ taken' # taken => (taken' = taken \o results /\ results' = <<>>)
          /\ results_lock = "poller" =>
                 \/ results' = results /\ taken' = taken
                 \/ taken' = taken \o results /\ results' = <<>>
          /\ Len(Published') >= Len(Published)
          /\ SubSeq(Published', 1, Len(Published)) = Published]_vars
    /\ [](Len(taken) + Len(results) = Len(SelectSeq(handled, IsEnd)))

\* the poller holds the lock on a list of one file, about to take it and
\* clear the list, while the reader waits to push the next file
C29_Witness ==
    /\ results_lock = "poller"
    /\ rpc = "push"
    /\ found # <<>>
    /\ Len(results) = 1
    /\ taken = <<>>

\* ------------------------- app.rs: check_search_done polled to the end of a search
\* the worker as finished() sees it: the reader thread has finished when its
\* closure has returned or panicked
PolledWorker ==
    [NewWorker EXCEPT !.process = child,
                      !.thread = IF rpc = "done" THEN "eof"
                                 ELSE IF rpc = "panicked" THEN "panicked"
                                 ELSE "running"]

\* a search has been started: one worker, its subprocess and its reader run
InitPoll ==
    /\ LineOff
    /\ FqcnOff
    /\ ParseOff
    /\ WorkerOff
    /\ RewriteOff
    /\ UpdateOff
    /\ RecordOff
    /\ LogOff
    /\ SyncOff
    /\ sent \in SeqsUpTo(Groups, MaxFiles)
    /\ input = BytesOf(sent)
    /\ stream = input
    /\ rpc = "read"
    /\ str_buf = <<>>
    /\ finished = FALSE
    /\ builder = NewBuilder
    /\ found = <<>>
    /\ results = <<>>
    /\ results_lock = "free"
    /\ handled = <<>>
    /\ search_state \in {"SearchingIdent", "SearchingFqcn"}
    /\ taken = <<>>
    /\ child = "running"
    /\ cpc = "drain"
    /\ dropped = <<>>

\* the subprocess, all its output written to the pipe, exits; the pipe
\* keeps what the reader has not read yet
ChildExits ==
    /\ child = "running"
    /\ child' = "exited"
    /\ UNCHANGED <<cpc, dropped>>
    /\ UNCHANGED <<lineVars, readerVars, fqcnVars, parseVars, workerVars, rewriteVars,
                   updateVars, recordVars, logVars, syncVars>>

\* check_search_done, the loop over the workers: the result list is locked,
\* emptied into found_matches (SearchingIdent) or into
\* process_matched_file_fqcn (SearchingFqcn), and unlocked
DrainResults ==
    /\ cpc = "drain"
    /\ results_lock = "free"
    /\ taken' = taken \o results
    /\ results' = <<>>
    /\ cpc' = "finished"
    /\ UNCHANGED <<sent, input, stream, rpc, str_buf, finished, builder, found,
                   results_lock, handled, search_state>>
    /\ UNCHANGED <<child, dropped>>
    /\ UNCHANGED <<lineVars, fqcnVars, parseVars, workerVars, rewriteVars, updateVars, recordVars, logVars, syncVars>>

\* check_search_done, `if self.workers.iter_mut().all(|worker|
\* worker.finished())`: kill_workers takes the workers and drops them, the
\* result list with them, and set_idle; else the next poll drains again
CheckFinished ==
    /\ cpc = "finished"
    /\ IF RgWorker_finished(PolledWorker)
       THEN /\ dropped' = results
            /\ search_state' = "Idle"
            /\ cpc' = "idle"
       ELSE /\ cpc' = "drain"
            /\ UNCHANGED <<dropped, search_state>>
    /\ UNCHANGED <<sent, input, stream, rpc, str_buf, finished, builder, found, results,
                   results_lock, handled, taken>>
    /\ UNCHANGED child
    /\ UNCHANGED <<lineVars, fqcnVars, parseVars, workerVars, rewriteVars, updateVars, recordVars, logVars, syncVars>>

NextPoll == RRead \/ RPass \/ RPush \/ ChildExits \/ DrainResults \/ CheckFinished

SpecPoll == InitPoll /\ [][NextPoll]_vars

\* ------------------------------------------------------- claims, SpecPoll
\* the worker has been torn down after its search ran to the end
TornDown == cpc = "idle"

\* C28: when the reader has read to the end of the stream and returned, and
\* the worker is torn down and its result list dropped, every file the
\* reader appended to the list has been drained by check_search_done: the
\* list held nothing, and what was drained is a file for each `end` record
\* the reader handled.
C28_NoResultLost ==
    TornDown /\ rpc = "done" =>
        /\ dropped = <<>>
        /\ Len(taken) = Len(SelectSeq(handled, IsEnd))

\* what the code keeps: the files drained and the files dropped with the
\* worker are together the files the reader appended, in order; a file is
\* dropped only if it was appended after the drain of the last poll
C28_DrainedOrDropped ==
    /\ TornDown =>
          /\ taken \o dropped = FilesOfRecords(handled, NewBuilder, <<>>).closed
          /\ rpc \in {"done", "panicked"}
          /\ child = "exited"
    /\ cpc = "finished" /\ rpc \in {"done", "panicked"} /\ child = "exited" /\ results = <<>> =>
          Len(taken) = Len(SelectSeq(handled, IsEnd))

\* the search ran to its end and the last file was still in the list when
\* the worker was dropped
C28_LostWitness ==
    /\ TornDown
    /\ rpc = "done"
    /\ Len(sent) = 2
    /\ Len(taken) = 1
    /\ dropped = <<FileOf(sent[2])>>

\* --------------------------------------------------- more claims, SpecFqcn
\* a file without its submatch ranges: the path, and number and text of
\* each line in order
Frame(file) ==
    [file_path |-> file.file_path,
     lines |-> [i \in 1..Len(file.lines) |->
                   [num |-> file.lines[i].num, value |-> file.lines[i].value]]]

\* the files of files_in that are retained, in input order
RECURSIVE RetainedOf(_, _)
RetainedOf(fs, ks) ==
    IF fs = <<>> THEN <<>>
    ELSE IF Head(ks) THEN <<Head(fs)>> \o RetainedOf(Tail(fs), Tail(ks))
    ELSE RetainedOf(Tail(fs), Tail(ks))

\* C36: process_matched_file_fqcn changes only submatch ranges and which
\* files are kept: the files it returns are the retained files of the input
\* in input order, each with its path, the number and order of its lines,
\* and the text and number of each line unchanged.
C36_OnlyRangesAndRetention ==
    fpc = "done" =>
        /\ Len(files_out) = Len(RetainedOf(files_in, kept))
        /\ \A k \in 1..Len(files_out) :
               Frame(files_out[k]) = Frame(RetainedOf(files_in, kept)[k])

\* two files at different paths are retained, the first with a context
\* line and a submatch that has been narrowed
C36_Witness ==
    /\ fpc = "done"
    /\ Len(files_in) = 2
    /\ kept = <<TRUE, TRUE>>
    /\ files_out[1].file_path = <<"p">>
    /\ files_out[2].file_path = <<"q">>
    /\ \E i \in 1..Len(files_in[1].lines) : files_in[1].lines[i].submatches = <<>>
    /\ files_out[1] # files_in[1]

\* one of two files is discarded and the other comes out first
C36_DiscardWitness ==
    /\ fpc = "done"
    /\ kept = <<FALSE, TRUE>>
    /\ Len(files_out) = 1
    /\ files_out[1].file_path = <<"q">>

\* range a is not empty and lies within range b
NonEmptyWithin(a, b) == b.start <= a.start /\ a.start < a.end /\ a.end <= b.end

\* C37: classification only narrows: the invariant check of adjust_submatches
\* never fails, and in every file classified, retained or not, each line has
\* as many submatches as before, each a non-empty sub-range of the submatch
\* at its place in the input.
C37_OnlyNarrows ==
    /\ fpc # "panicked"
    /\ \A i \in 1..Len(files_in) :
           LET c == classify(fqcn, files_in[i]) IN
           /\ c.ok
           /\ \A j \in 1..Len(files_in[i].lines) :
                  LET l == files_in[i].lines[j]
                      out == c.file.lines[j]
                  IN  /\ Len(out.submatches) = Len(l.submatches)
                      /\ \A k \in 1..Len(l.submatches) :
                             NonEmptyWithin(out.submatches[k], l.submatches[k])
                      /\ check_invariants(out.submatches)

\* a retained file with a submatch narrowed to a proper sub-range and a line
\* of two submatches
C37_Witness ==
    /\ fpc = "done"
    /\ kept[1]
    /\ files_in[1].lines = <<FLine(3, S_package_foo_bar, <<Rng(0, 15)>>),
                             FLine(8, S_Baz_myBaz, <<Rng(3, 6), Rng(19, 22)>>)>>
    /\ files_out[1].lines[1].submatches = <<Rng(8, 15)>>
    /\ Len(files_out[1].lines[2].submatches) = 2

\* the line declares a package other than f's whose name holds f's package
OtherPackageLine(f, l) ==
    /\ starts_with(l.value, PACKAGE)
    /\ contains(l.value, package_of(f))
    /\ l.value \notin {PACKAGE \o package_of(f), PACKAGE \o package_of(f) \o <<";">>}

\* the line imports a class other than f whose name starts with f's value
LongerImportLine(f, l) ==
    /\ starts_with(l.value, IMPORT \o value_of(f))
    /\ l.value \notin {IMPORT \o value_of(f), IMPORT \o value_of(f) \o <<";">>}

\* the file's only evidence is a coincidence of substrings: such a package
\* or import line, not matched itself, and matches of the bare identifier
SubstringCoincidence(f, file) ==
    /\ \E i \in 1..Len(file.lines) :
           OtherPackageLine(f, file.lines[i]) \/ LongerImportLine(f, file.lines[i])
    /\ \A i \in 1..Len(file.lines) :
           \/ /\ OtherPackageLine(f, file.lines[i]) \/ LongerImportLine(f, file.lines[i])
              /\ file.lines[i].submatches = <<>>
           \/ BareIdentLine(f, file.lines[i])

\* C39: package and import evidence counts only for the searched FQCN
\* itself: a file whose package line names another package that holds the
\* FQCN's package as a substring, or whose import line names another class
\* that has the FQCN as a prefix, and that has only bare-identifier matches
\* otherwise, is discarded.
C39_CoincidenceDiscarded ==
    fpc = "done" =>
        \A i \in 1..Len(files_in) :
            SubstringCoincidence(fqcn, files_in[i]) => ~kept[i]

\* what the code does with such a file, when it has a match at all: the
\* import line alone retains it, and the package line retains it together
\* with a match of the bare identifier
C39_CoincidenceRetained ==
    fpc = "done" =>
        \A i \in 1..Len(files_in) :
            SubstringCoincidence(fqcn, files_in[i]) => kept[i]

\* ------------------------------------------------- more claims, SpecUpdate
\* the texts the closure of update_replacements_fqcn has a replacement for
PartsOf(f) == {value_of(f), package_of(f), ident_of(f)}

\* the submatch texts of the files kept in found_matches
KeptTexts ==
    UNION {AllSubTexts(found_matches[k]) : k \in 1..Len(found_matches)}

\* C32: after FQCN classification the text of every submatch of every file
\* kept in found_matches is the searched FQCN's full value, its package or
\* its identifier, and update_replacements_fqcn does not reach its
\* unreachable!() branch.
C32_KeptTextsAreParts ==
    /\ KeptTexts \subseteq PartsOf(FindFqcn)
    /\ upc # "panicked"

\* what the code keeps: a kept submatch text is one of the three parts, or
\* holds none of them and is the whole match of the pattern; the unreachable!()
\* branch is reached when there is such a text, and only then
C32_OtherTextsAreWholeMatches ==
    /\ \A t \in KeptTexts :
           \/ t \in PartsOf(FindFqcn)
           \/ \A part \in PartsOf(FindFqcn) : ~contains(t, part)
    /\ upc = "panicked" => ~(KeptTexts \subseteq PartsOf(FindFqcn))
    /\ upc = "done" => KeptTexts \subseteq PartsOf(FindFqcn)

\* ------------------------------------------------ more claims, SpecRewrite
\* this step is a replace that failed on some file
ReplaceFailed ==
    /\ outcomes' # outcomes
    /\ outcomes'[Len(outcomes')] \in {"already exists", "io error"}

\* the place in the list of the file the replace of this step fails on
RECURSIVE FailsAt(_, _, _)
FailsAt(d, replacements, k) ==
    IF replacements = <<>> THEN 0
    ELSE LET one == execute_replacement(d, Head(replacements))
         IN  IF one.result = "ok" THEN FailsAt(one.disk, Tail(replacements), k + 1) ELSE k

\* the files later in the list than the one that failed, and their backups,
\* are as they were
LaterUntouched ==
    \A k \in 1..Len(replacments) :
        k > FailsAt(disk, replacments, 1) =>
            /\ disk'[replacments[k].file_path] = disk[replacments[k].file_path]
            /\ disk'[backup_file_path(replacments[k].file_path)]
                   = disk[backup_file_path(replacments[k].file_path)]

\* C38: a failed replace leaves the application state as it was: the
\* replacement list holds the same entries as before the attempt, and the
\* files later in the list are untouched.
C38_FailedReplaceKeepsState ==
    [][ReplaceFailed => (replacments' = replacments /\ LaterUntouched)]_vars

\* what the code keeps: the files later in the list are untouched, and the
\* replacement list is left empty
C38_FailedReplaceEmptiesList ==
    [][ReplaceFailed => (replacments' = <<>> /\ LaterUntouched)]_vars

\* ------------------------------- event_log.rs: the event log and its lock
Capacity == 20     \* `if state.events.len() > 20`
MaxPushes == 21    \* a poll starts only while fewer lines than this were pushed
MaxLogFiles == 1   \* most files the subprocess reports

LogLine(num, level, text) == [num |-> num, level |-> level, value |-> text]

NewLog == [last |-> 0, events |-> <<>>]

\* mutant: the oldest line is never dropped
EventLog_push_keeps_all(st, level, text) ==
    [last |-> st.last + 1, events |-> <<LogLine(st.last, level, text)>> \o st.events]

\* EventLog::push, under the lock: push_front of the line numbered `last`,
\* last += 1, pop_back when more than 20 lines are held
EventLog_push(st, level, text) ==
    LET pushed_front == <<LogLine(st.last, level, text)>> \o st.events
    IN  [last |-> st.last + 1,
         events |-> IF Len(pushed_front) > Capacity
                    THEN SubSeq(pushed_front, 1, Len(pushed_front) - 1)
                    ELSE pushed_front]

\* the calls of info that run while a search is polled: each label is the
\* place of a thread that is about to push, or is pushing, that line
ReaderLogs == {"waiting for stdout", "match in", "end of file"}

PollerLogs == {"start rg", "got matches", "cleared workers"}

\* the thread is in EventLog::push
InPush(t) ==
    IF t = "reader" THEN lpc.reader \in ReaderLogs ELSE lpc.poller \in PollerLogs

\* where the reader goes when it has read on: the `end` of a file, or
\* end-of-stream
ReaderReadsOn(left) == IF left > 0 THEN "match in" ELSE "end of file"

\* a search has been started: the reader thread is spawned, the poller is
\* about to log the start
InitLog ==
    /\ LineOff
    /\ ReaderOff
    /\ FqcnOff
    /\ ParseOff
    /\ WorkerOff
    /\ RewriteOff
    /\ UpdateOff
    /\ RecordOff
    /\ PollOff
    /\ SyncOff
    /\ log_state = NewLog
    /\ log_lock = "free"
    /\ list_lock = "free"
    /\ lpc = [poller |-> "start rg", reader |-> "waiting for stdout"]
    /\ log_pushes = <<>>
    /\ files_left \in 0..MaxLogFiles
    /\ log_search \in {"SearchingIdent", "SearchingFqcn"}
    /\ show_events \in BOOLEAN

\* EventLog::push, `self.state.lock()`
LockLog(t) ==
    /\ InPush(t)
    /\ log_lock = "free"
    /\ log_lock' = t
    /\ UNCHANGED <<log_state, list_lock, lpc, log_pushes, files_left, log_search, show_events>>
    /\ UNCHANGED <<lineVars, readerVars, fqcnVars, parseVars, workerVars, rewriteVars,
                   updateVars, recordVars, pollVars, syncVars>>

\* mutant: the reader keeps the guard of the event log after the push for
\* a file it is about to add to the result list
ReaderPushes_keeps_guard ==
    /\ log_lock = "reader"
    /\ log_state' = EventLog_push(log_state, "Info", lpc.reader)
    /\ log_pushes' = Append(log_pushes, [level |-> "Info", value |-> lpc.reader])
    /\ log_lock' = IF lpc.reader = "match in" THEN "reader" ELSE "free"
    /\ lpc' = [lpc EXCEPT !.reader =
                  IF @ = "waiting for stdout" THEN ReaderReadsOn(files_left)
                  ELSE IF @ = "match in" THEN "publish"
                  ELSE "done"]
    /\ UNCHANGED <<list_lock, files_left, log_search, show_events>>
    /\ UNCHANGED <<lineVars, readerVars, fqcnVars, parseVars, workerVars, rewriteVars,
                   updateVars, recordVars, pollVars, syncVars>>

\* the reader's events.info(..): the rest of push, and the guard dropped
\* (rg_worker.rs:102, 107, 166)
ReaderPushes ==
    /\ log_lock = "reader"
    /\ log_state' = EventLog_push(log_state, "Info", lpc.reader)
    /\ log_pushes' = Append(log_pushes, [level |-> "Info", value |-> lpc.reader])
    /\ log_lock' = "free"
    /\ lpc' = [lpc EXCEPT !.reader =
                  IF @ = "waiting for stdout" THEN ReaderReadsOn(files_left)
                  ELSE IF @ = "match in" THEN "publish"
                  ELSE "done"]
    /\ UNCHANGED <<list_lock, files_left, log_search, show_events>>
    /\ UNCHANGED <<lineVars, readerVars, fqcnVars, parseVars, workerVars, rewriteVars,
                   updateVars, recordVars, pollVars, syncVars>>

\* handle_command on `end`: matches.lock()
ReaderLocksList ==
    /\ lpc.reader = "publish"
    /\ list_lock = "free"
    /\ list_lock' = "reader"
    /\ UNCHANGED <<log_state, log_lock, lpc, log_pushes, files_left, log_search, show_events>>
    /\ UNCHANGED <<lineVars, readerVars, fqcnVars, parseVars, workerVars, rewriteVars,
                   updateVars, recordVars, pollVars, syncVars>>

\* handle_command on `end`: .push(found), the guard dropped, and the reader
\* reads on
ReaderPublishes ==
    /\ list_lock = "reader"
    /\ list_lock' = "free"
    /\ files_left' = files_left - 1
    /\ lpc' = [lpc EXCEPT !.reader = ReaderReadsOn(files_left - 1)]
    /\ UNCHANGED <<log_state, log_lock, log_pushes, log_search, show_events>>
    /\ UNCHANGED <<lineVars, readerVars, fqcnVars, parseVars, workerVars, rewriteVars,
                   updateVars, recordVars, pollVars, syncVars>>

\* run_app: terminal.draw(ui), where `app.events.list()` holds the guard of
\* the event log while the lines are rendered, if the events are shown
Draw ==
    /\ lpc.poller = "draw"
    /\ IF show_events /\ log_lock # "poller"
       THEN /\ log_lock = "free"
            /\ log_lock' = "poller"
            /\ lpc' = lpc
       ELSE /\ log_lock' = IF log_lock = "poller" THEN "free" ELSE log_lock
            /\ lpc' = [lpc EXCEPT !.poller = "poll"]
    /\ UNCHANGED <<log_state, list_lock, log_pushes, files_left, log_search, show_events>>
    /\ UNCHANGED <<lineVars, readerVars, fqcnVars, parseVars, workerVars, rewriteVars,
                   updateVars, recordVars, pollVars, syncVars>>

\* check_search_done: worker.results(), the guard kept for the body of the
\* loop (SearchingIdent) or for the mem::take alone (SearchingFqcn)
PollerLocksList ==
    /\ lpc.poller = "poll"
    /\ Len(log_pushes) < MaxPushes
    /\ list_lock = "free"
    /\ list_lock' = IF log_search = "SearchingIdent" THEN "poller" ELSE "free"
    /\ lpc' = [lpc EXCEPT !.poller = "got matches"]
    /\ UNCHANGED <<log_state, log_lock, log_pushes, files_left, log_search, show_events>>
    /\ UNCHANGED <<lineVars, readerVars, fqcnVars, parseVars, workerVars, rewriteVars,
                   updateVars, recordVars, pollVars, syncVars>>

\* the poller's events.info(..): the rest of push, and the guard dropped
\* (app.rs:68, 78, 275, 294, 318); after `cleared workers` set_idle
PollerPushes ==
    /\ log_lock = "poller"
    /\ lpc.poller \in PollerLogs
    /\ log_state' = EventLog_push(log_state, "Info", lpc.poller)
    /\ log_pushes' = Append(log_pushes, [level |-> "Info", value |-> lpc.poller])
    /\ log_lock' = "free"
    /\ lpc' = [lpc EXCEPT !.poller =
                  IF @ = "start rg" THEN "draw"
                  ELSE IF @ = "got matches" THEN "append"
                  ELSE "idle"]
    /\ UNCHANGED <<list_lock, files_left, log_search, show_events>>
    /\ UNCHANGED <<lineVars, readerVars, fqcnVars, parseVars, workerVars, rewriteVars,
                   updateVars, recordVars, pollVars, syncVars>>

\* check_search_done: found_matches.append(..) and the end of the loop body,
\* where the guard of the list is dropped; then `workers.all(finished)`:
\* kill_workers when the reader has returned, else the next turn of run_app
PollerAppends ==
    /\ lpc.poller = "append"
    /\ list_lock' = IF list_lock = "poller" THEN "free" ELSE list_lock
    /\ lpc' = [lpc EXCEPT !.poller =
                  IF lpc.reader = "done" THEN "cleared workers" ELSE "draw"]
    /\ UNCHANGED <<log_state, log_lock, log_pushes, files_left, log_search, show_events>>
    /\ UNCHANGED <<lineVars, readerVars, fqcnVars, parseVars, workerVars, rewriteVars,
                   updateVars, recordVars, pollVars, syncVars>>

NextLog ==
    \/ LockLog("reader")
    \/ LockLog("poller")
    \/ ReaderPushes
    \/ ReaderLocksList
    \/ ReaderPublishes
    \/ Draw
    \/ PollerLocksList
    \/ PollerPushes
    \/ PollerAppends

SpecLog == InitLog /\ [][NextLog]_vars

\* --------------------------------------------------------- claims, SpecLog
\* the line the log is to hold at place k, newest first, after n pushes
PushedLine(n, k) == LogLine(n - k, log_pushes[n - k + 1].level, log_pushes[n - k + 1].value)

\* C40: after any pushes of the two threads the log holds at most 20 lines,
\* the most recent min(n, 20) of the n pushes, newest first, and the lines
\* are numbered by the pushes from 0 on, one more for each push.
C40_NewestTwentyNumbered ==
    LET n == Len(log_pushes) IN
    /\ log_state.last = n
    /\ Len(log_state.events) = Min(n, Capacity)
    /\ \A k \in 1..Len(log_state.events) : log_state.events[k] = PushedLine(n, k)

\* more than 20 lines have been pushed, some by each thread; the log is
\* full and its oldest line is not the first that was pushed
C40_Witness ==
    /\ Len(log_pushes) > Capacity
    /\ Len(log_state.events) = Capacity
    /\ log_state.events[Capacity].num > 0
    /\ \E k \in 1..Capacity : log_state.events[k].value \in ReaderLogs
    /\ \E k \in 1..Capacity : log_state.events[k].value \in PollerLogs

\* the thread waits for the lock of the event log, held by the other thread
WaitsForLog(t) ==
    /\ log_lock \notin {"free", t}
    /\ \/ InPush(t)
       \/ t = "poller" /\ lpc.poller = "draw" /\ show_events

\* the thread waits for the lock of the result list, held by the other thread
WaitsForList(t) ==
    /\ list_lock \notin {"free", t}
    /\ IF t = "reader" THEN lpc.reader = "publish"
       ELSE lpc.poller = "poll" /\ Len(log_pushes) < MaxPushes

Blocked(t) == WaitsForLog(t) \/ WaitsForList(t)

\* C34: the reader and the poller never deadlock on the two locks: the
\* reader does not hold the lock of the event log when it goes for the lock
\* of the result list, and in no state are both threads blocked, each
\* waiting for a lock the other holds.
C34_NoDeadlock ==
    /\ lpc.reader = "publish" => log_lock # "reader"
    /\ list_lock = "reader" => log_lock # "reader"
    /\ ~(Blocked("poller") /\ Blocked("reader"))

\* an identifier search: the poller holds the lock of the result list and
\* waits for the event log, which the reader holds
C34_Witness ==
    /\ log_search = "SearchingIdent"
    /\ list_lock = "poller"
    /\ lpc.poller = "got matches"
    /\ log_lock = "reader"
    /\ lpc.reader = "match in"

\* ------------------------------------------ the reader thread under fairness
\* the reader thread is scheduled; the mutex of the result list is granted
\* to a thread that keeps asking for it, and the poller drops its guard
FairReader ==
    /\ WF_vars(RRead)
    /\ WF_vars(RPass)
    /\ SF_vars(RPush)
    /\ WF_vars(PAppend)

SpecReaderFair == InitReader /\ [][NextReader]_vars /\ FairReader

\* each pass of the record-splitting loop takes at least one byte from the
\* buffer or leaves the loop; once end-of-stream has been read, nothing more
\* is read; records are decoded in stream order, none twice
ReaderProgress ==
    /\ [][RPass => (Len(str_buf') < Len(str_buf) \/ rpc' # "split")]_vars
    /\ [](finished => rpc # "read")
    /\ [](handled = SubSeq(AllRecords(sent), 1, Len(handled)))

\* C35: for every finite output of the subprocess the reader loop comes to
\* its end with every record decoded once, in stream order; each pass of
\* the record-splitting loop takes at least one byte from the buffer or
\* leaves the loop, and after end-of-stream nothing more is read.
C35_TerminatesWithAllDecoded ==
    /\ <>(rpc = "done" /\ handled = AllRecords(sent))
    /\ ReaderProgress

\* a bound on the steps the reader thread has left: it falls with every
\* read, every pass of the 'no_nl loop and every push
ReaderMeasure ==
    LET rank == CASE rpc = "push" -> 3
                  [] rpc = "split" -> 2
                  [] rpc = "read" -> 1
                  [] OTHER -> 0
    IN  4 * (2 * Len(stream) + Len(str_buf) + (IF finished THEN 0 ELSE 1)) + rank

\* what the code keeps: the reader thread ends, by returning or by the
\* panic of from_utf8 on a chunk that ends inside a character; when it
\* returns every record has been decoded once, in stream order
C35_TerminatesOrPanics ==
    /\ [][(RRead \/ RPass \/ RPush) => ReaderMeasure' < ReaderMeasure]_vars
    /\ [](rpc = "done" => handled = AllRecords(sent))
    /\ [][(rpc # "panicked" /\ rpc' = "panicked") =>
              /\ rpc = "read"
              /\ ~from_utf8_ok(SubSeq(stream, 1, Len(stream) - Len(stream')))]_vars
    /\ ReaderProgress

\* ------------------------------------------------ more claims, SpecWorker
\* the search state machine of the App: at most one worker; no worker in
\* Idle; a search is started from Idle only; the search button submitted
\* while searching takes the workers out of the App, starts no search, and
\* what follows it is the teardown and the return to Idle
SearchStateMachine ==
    /\ [](Len(workers) <= 1)
    /\ [](app_state = "Idle" => workers = <<>>)
    /\ [][Searches' > Searches => (app_state = "Idle" /\ apc = "loop")]_vars
    /\ [][(apc = "loop" /\ app_state # "Idle" /\ killing' # killing) =>
              /\ workers' = <<>>
              /\ Searches' = Searches
              /\ app_state' = app_state]_vars
    /\ [][caller = "stop" => (Searches' = Searches /\ app_state' \in {app_state, "Idle"})]_vars

\* the subprocess of a worker of a stopped search is no longer running when
\* kill_and_wait goes on to join its reader
StopKills ==
    [][(caller = "stop" /\ apc = "kill" /\ apc' = "join") =>
           spawned[Head(killing)].process # "running"]_vars

\* C33: at most one worker exists in every state, and in Idle the worker
\* list is empty; a search is started from Idle only; the search button
\* submitted while searching kills the workers and returns to Idle, and
\* starts no search.
C33_OneWorkerStopKills ==
    SearchStateMachine /\ StopKills

\* what the code keeps: all of it but the kill
C33_OneWorkerStopTearsDown ==
    SearchStateMachine

\* ======================================================================
\* app.rs: found_matches and replacments across searches, polls and edits
\* ======================================================================
S_Baz == <<"B", "a", "z">>

\* the file paths of a list of matched files, in order
PathsOf(files) == [k \in 1..Len(files) |-> files[k].file_path]

\* a file the worker reports with `import foo.bar.Baz;` matched at the FQCN
ImportFile(path) == MatchedFile(path, <<FLine(2, S_import_foo_bar_Baz, <<Rng(7, 18)>>)>>)

\* a file the worker reports with `Baz b;` matched at the identifier
BareFile(path) == MatchedFile(path, <<FLine(8, S_Baz_b, <<Rng(0, 3)>>)>>)

\* what the worker of one search may report, file by file
ReportsFor(find_ident) ==
    LET a == IF Fqcn_new(find_ident).some THEN ImportFile(P) ELSE BareFile(P)
        b == BareFile(Q)
    IN  {<<>>, <<a>>, <<b>>, <<a, b>>, <<b, a>>}

InitSync ==
    /\ LineOff
    /\ ReaderOff
    /\ FqcnOff
    /\ ParseOff
    /\ WorkerOff
    /\ RewriteOff
    /\ RecordOff
    /\ PollOff
    /\ LogOff
    /\ sync_state = "Idle"
    /\ found_matches = <<>>
    /\ new_replacments = <<>>
    /\ search_for_ident \in {S_foo_bar_Baz, S_Baz}
    /\ replace_with_ident \in {S_ab_Cd, S_Cd}
    /\ to_report = <<>>
    /\ rewritten = <<>>
    /\ started = 0
    /\ upc = "ready"

\* App::search_button_submitted in Idle: set_searching_and_clear_results
\* clears found_matches, and the worker of the search is spawned
SearchStart ==
    /\ upc = "ready"
    /\ sync_state = "Idle"
    /\ started < MaxSearches
    /\ started' = started + 1
    /\ found_matches' = <<>>
    /\ sync_state' = IF Fqcn_new(search_for_ident).some THEN "SearchingFqcn"
                     ELSE "SearchingIdent"
    /\ to_report' \in ReportsFor(search_for_ident)
    /\ UNCHANGED <<search_for_ident, replace_with_ident, new_replacments, upc, rewritten>>
    /\ UNCHANGED <<lineVars, readerVars, fqcnVars, parseVars, workerVars, rewriteVars, recordVars, pollVars, logVars>>

\* App::search_button_submitted while searching: kill_workers and set_idle
SearchStop ==
    /\ upc = "ready"
    /\ sync_state \in {"SearchingFqcn", "SearchingIdent"}
    /\ sync_state' = "Idle"
    /\ to_report' = <<>>
    /\ UNCHANGED <<found_matches, search_for_ident, replace_with_ident, new_replacments,
                   upc, rewritten, started>>
    /\ UNCHANGED <<lineVars, readerVars, fqcnVars, parseVars, workerVars, rewriteVars, recordVars, pollVars, logVars>>

\* App::check_search_done while searching: the results the worker has
\* pushed so far are appended, the search ends when the worker has finished,
\* and update_replacements runs when results_changed
SearchPoll ==
    /\ upc = "ready"
    /\ sync_state \in {"SearchingFqcn", "SearchingIdent"}
    /\ \E k \in 0..Len(to_report), fin \in BOOLEAN :
           LET drained == SubSeq(to_report, 1, k)
               appended == IF sync_state = "SearchingIdent" THEN drained
                           ELSE Retained(Fqcn_new(search_for_ident), drained)
               results_changed == sync_state = "SearchingIdent" \/ appended # <<>>
               matches == found_matches \o appended
               u == update_replacements(search_for_ident, replace_with_ident, matches)
           IN  /\ fin => k = Len(to_report)
               /\ to_report' = SubSeq(to_report, k + 1, Len(to_report))
               /\ found_matches' = matches
               /\ sync_state' = IF fin THEN "Idle" ELSE sync_state
               /\ IF results_changed
                  THEN /\ new_replacments' = u.replacments
                       /\ upc' = IF u.ok THEN "ready" ELSE "panicked"
                  ELSE UNCHANGED <<new_replacments, upc>>
    /\ UNCHANGED <<search_for_ident, replace_with_ident, rewritten, started>>
    /\ UNCHANGED <<lineVars, readerVars, fqcnVars, parseVars, workerVars, rewriteVars, recordVars, pollVars, logVars>>

\* run_app: a key changed the replacement input, update_replacements runs
ReplacementEdit ==
    /\ upc = "ready"
    /\ \E v \in {S_ab_Cd, S_Cd} \ {replace_with_ident} :
           LET u == update_replacements(search_for_ident, v, found_matches)
           IN  /\ replace_with_ident' = v
               /\ new_replacments' = u.replacments
               /\ upc' = IF u.ok THEN "ready" ELSE "panicked"
    /\ UNCHANGED <<found_matches, search_for_ident, sync_state, to_report, rewritten, started>>
    /\ UNCHANGED <<lineVars, readerVars, fqcnVars, parseVars, workerVars, rewriteVars, recordVars, pollVars, logVars>>

\* App::replace_input_submitted: execute_replacements rewrites the file of
\* every entry of replacments, whatever the search state
ReplaceSubmitted ==
    /\ upc = "ready"
    /\ rewritten' = PathsOf(new_replacments)
    /\ UNCHANGED <<found_matches, search_for_ident, replace_with_ident, new_replacments,
                   upc, sync_state, to_report, started>>
    /\ UNCHANGED <<lineVars, readerVars, fqcnVars, parseVars, workerVars, rewriteVars, recordVars, pollVars, logVars>>

NextSync ==
    \/ SearchStart
    \/ SearchStop
    \/ SearchPoll
    \/ ReplacementEdit
    \/ ReplaceSubmitted

SpecSync == InitSync /\ [][NextSync]_vars

\* C31: after any sequence of search start, search stop, polls and
\* replacement-input edits the replacement list holds one entry per file of
\* found_matches, in the same order and for the same paths, and a replace
\* submitted after a new search has cleared found_matches rewrites no file
\* of the previous search
C31_ReplacementsFollowMatches ==
    /\ [](PathsOf(new_replacments) = PathsOf(found_matches))
    /\ [][ReplaceSubmitted =>
              \A k \in 1..Len(rewritten') :
                  \E i \in 1..Len(found_matches) : found_matches[i].file_path = rewritten'[k]]_vars

\* what holds instead: the two lists agree after every step that runs
\* update_replacements, and a replace rewrites the files of replacments
C31_AgreeAfterUpdate ==
    [][(ReplacementEdit \/ (SearchPoll /\ (sync_state = "SearchingIdent"
                                            \/ found_matches' # found_matches)))
          => PathsOf(new_replacments') = PathsOf(found_matches')]_vars

\* a second search has cleared found_matches, found nothing to keep and
\* ended, and a replace has then rewritten a file of the first search
C31_StaleRewrite ==
    /\ started = 2
    /\ sync_state = "Idle"
    /\ found_matches = <<>>
    /\ rewritten # <<>>
    /\ new_replacments # <<>>

====
